---- MODULE Spec2Model ----
(***************************************************************************)
(* Verification model of linkml-runtime: the SchemaView (memoised queries, *)
(* mutation methods, imports closure, slot induction) and the pydantic RDF *)
(* loader (multilingual collapse, list-shape repair).                      *)
(*                                                                         *)
(* The module holds several specifications, one per component.  Each one   *)
(* moves its own variables and leaves the variables of the others at the   *)
(* value given by the Idle* predicates.                                    *)
(***************************************************************************)
EXTENDS Integers, Sequences, FiniteSets, TLC

VARIABLES
    \* ---- SchemaView (SpecView) ----
    schema_map,     \* SchemaView.schema_map: schema name -> schema document
    modifications,  \* SchemaView.modifications
    cache,          \* the lru_cache tables of the view's query methods
    last,           \* the last call made on the view and what it returned
    \* ---- imports_closure, one loop iteration at a time (SpecImports) ----
    ic,             \* [pc, todo, visited, closure, result] of the running call
    \* ---- induced_slot (SpecInduce, SpecBounds) ----
    schema,         \* the classes and slots induced_slot reads (and writes)
    induced_cache,  \* the lru_cache table of induced_slot
    induced,        \* the last induced_slot call and what it returned
    \* ---- PydanticRDFLoader.load, one step at a time (SpecLoad) ----
    ld,             \* [pc, instance, graph, todo, model_data, result] of the load
    \* ---- RDFLibDumper.as_rdf_graph (SpecDump) ----
    dp              \* [namespaces, base, prefix_map, graph]: the view's memoised
                    \* Namespaces object and the last dump made with it

viewVars == <<schema_map, modifications, cache, last>>
induceVars == <<schema, induced_cache, induced>>
vars == <<schema_map, modifications, cache, last, ic, schema, induced_cache, induced, ld, dp>>

\* Python's None.
None == "None"

(***************************************************************************)
(* Python dict, insertion ordered: a sequence of <<key, value>> pairs.     *)
(***************************************************************************)
DictKeys(d) == {d[i][1] : i \in 1..Len(d)}

DictHas(d, k) == \E i \in 1..Len(d) : d[i][1] = k

\* d[k]; only used where k is present.
DictGet(d, k) == d[CHOOSE i \in 1..Len(d) : d[i][1] = k][2]

RECURSIVE DictValues(_)
DictValues(d) == IF d = <<>> THEN <<>> ELSE <<Head(d)[2]>> \o DictValues(Tail(d))

\* d[k] = v: an existing key keeps its place, a new key goes to the end.
RECURSIVE DictSet(_, _, _)
DictSet(d, k, v) ==
    IF d = <<>> THEN << <<k, v>> >>
    ELSE IF Head(d)[1] = k THEN << <<k, v>> >> \o Tail(d)
    ELSE <<Head(d)>> \o DictSet(Tail(d), k, v)

\* del d[k]
DictDel(d, k) == SelectSeq(d, LAMBDA e : e[1] # k)

\* {**d, **d1}
RECURSIVE DictMerge(_, _)
DictMerge(d, d1) ==
    IF d1 = <<>> THEN d
    ELSE DictMerge(DictSet(d, Head(d1)[1], Head(d1)[2]), Tail(d1))

\* The elements of a sequence.
Range(s) == {s[i] : i \in 1..Len(s)}

\* list(dict.fromkeys(s).keys()): duplicates dropped, the first entry kept.
RECURSIVE DedupKeepFirst(_)
DedupKeepFirst(s) ==
    IF s = <<>> THEN <<>>
    ELSE LET r == DedupKeepFirst(SubSeq(s, 1, Len(s) - 1))
         IN  IF s[Len(s)] \in Range(r) THEN r ELSE Append(r, s[Len(s)])

(***************************************************************************)
(* Schema documents.  An element definition is a record; `ver` stands for  *)
(* the rest of the definition's content (description, range, ...), so that *)
(* two definitions of one name can be told apart.                          *)
(***************************************************************************)
CLASSES == "classes"
SLOTS == "slots"
ENUMS == "enums"
TYPES == "types"
SUBSETS == "subsets"
ELEMENTS == <<CLASSES, SLOTS, ENUMS, SUBSETS, TYPES>>

ClassDef(n, v, isa, mix, attrs) ==
    [name |-> n, ver |-> v, is_a |-> isa, mixins |-> mix, attributes |-> attrs]

ElemDef(n, v) == [name |-> n, ver |-> v]

SchemaDef(n, imps, cls, sls, ens, tys, sbs) ==
    [name |-> n, imports |-> imps, classes |-> cls, slots |-> sls,
     enums |-> ens, types |-> tys, subsets |-> sbs]

(***************************************************************************)
(* imports_closure: the FILO traversal, one loop iteration at a time.      *)
(* `imps` maps each schema name to the import list of its document (what   *)
(* self.schema_map[sn].imports gives once load_import has loaded it).      *)
(***************************************************************************)
\* Names holding a "/" (a relative path with a parent folder) and import
\* texts holding a ":" (a CURIE or URI).
SlashNames == {"d/a", "d/b"}
ColonNames == {"x:t"}

\* `"/" in sn` and `":" in i`
HasSlash(sn) == sn \in SlashNames
HasColon(i) == i \in ColonNames

\* os.path.normpath(str(Path(sn).parent / i)) for sn in the folder "d".
NormPath(sn, i) ==
    CASE i = "a" -> "d/a"
      [] i = "b" -> "d/b"
      [] i = "main" -> "d/main"
      [] OTHER -> "d/d/a"

\* The key under which import i of schema sn is pushed on todo.
ResolveImport(sn, i) ==
    IF HasSlash(sn) /\ ~HasColon(i) THEN NormPath(sn, i) ELSE i

RECURSIVE PushImports(_, _)
PushImports(sn, il) ==
    IF il = <<>> THEN <<>>
    ELSE IF Head(il) = sn THEN PushImports(sn, Tail(il))
    ELSE <<ResolveImport(sn, Head(il))>> \o PushImports(sn, Tail(il))

ClosureStart(root) ==
    [todo |-> <<root>>, visited |-> {}, closure |-> <<>>, raised |-> FALSE]

\* No call of imports_closure is being stepped.
IdleClosure ==
    [pc |-> "idle", imports |-> TRUE, todo |-> <<>>, visited |-> {},
     closure |-> <<>>, result |-> <<>>]

\* No schema is loaded for slot induction and no call has been made.
IdleInduce ==
    /\ schema = [classes |-> <<>>, slots |-> <<>>]
    /\ induced_cache = {}
    /\ induced = [op |-> "idle"]

\* No loader has been asked to load anything.
IdleLoad == [pc |-> "idle"]
IdleDump == [pc |-> "idle"]

\* One iteration of `while len(todo) > 0`.  load_import raises for a name
\* no document exists for, and the exception ends the call.
ClosureIter(imps, st) ==
    LET sn == st.todo[Len(st.todo)]
        rest == SubSeq(st.todo, 1, Len(st.todo) - 1)
        pushed == IF sn \notin st.visited THEN PushImports(sn, imps[sn]) ELSE <<>>
    IN  IF sn \notin DOMAIN imps
        THEN [st EXCEPT !.raised = TRUE]
        ELSE [todo |-> rest \o pushed,
              visited |-> st.visited \cup {sn},
              closure |-> <<sn>> \o st.closure,
              raised |-> FALSE]

RECURSIVE ClosureRun(_, _)
ClosureRun(imps, st) ==
    IF st.todo = <<>> \/ st.raised THEN st
    ELSE ClosureRun(imps, ClosureIter(imps, st))

\* The list the loop's deque is flattened to.
ClosureResult_keeping_duplicates(st) == st.closure

ClosureResult(st) == DedupKeepFirst(st.closure)

imports_closure(imps, root, imports) ==
    IF ~imports THEN <<root>>
    ELSE ClosureResult(ClosureRun(imps, ClosureStart(root)))

ImportsOf(sm) == [sn \in DOMAIN sm |-> sm[sn].imports]

(***************************************************************************)
(* SchemaView: memoised queries.                                           *)
(*                                                                         *)
(* Every query method is wrapped in lru_cache(None); the key is the view   *)
(* (hashed and compared by __key(): schema id, uuid, modifications) and    *)
(* the arguments as written at the call.  The id and the uuid of one view  *)
(* never change, so a key is <<modifications, method, arguments>>.         *)
(* cache.schemas is the table of all_schema (and of imports_closure, which *)
(* all_schema calls with the same argument and whose list of names it      *)
(* turns into the list of the documents of these names); cache.elems holds *)
(* the tables of all_classes, all_slots, all_enums, all_types and          *)
(* all_subsets.  A memoised call is an operator from the tables to         *)
(* [cache |-> the tables after the call, result |-> what it returns].      *)
(***************************************************************************)
RootName == "main"

\* The ways the arguments of a query are written: f(), f(imports=True),
\* f(imports=False).  Each is a key of its own.
ArgForms == {"()", "imports=True", "imports=False"}
ArgImports(a) == a # "imports=False"

\* A key that leaves the modification count out.
__key_without_modifications(mods) == 0

\* SchemaView.__key(): (schema.id, uuid, modifications); one view, one schema.
__key(mods) == mods

all_schema(sm, c, mods, imports) ==
    LET hit == {e \in c.schemas : e.mods = __key(mods) /\ e.imports = imports}
    IN  IF hit # {}
        THEN [cache |-> c, result |-> (CHOOSE e \in hit : TRUE).result]
        ELSE LET r == imports_closure(ImportsOf(sm), RootName, imports)
             IN  [cache |-> [c EXCEPT !.schemas = @ \cup
                        {[mods |-> __key(mods), imports |-> imports, result |-> r]}],
                  result |-> r]

\* _get_dict's loop over the schemas (given by name, read from sm).
RECURSIVE MergeSchemas(_, _, _, _)
MergeSchemas(sm, schemas, element_name, d) ==
    IF schemas = <<>> THEN d
    ELSE MergeSchemas(sm, Tail(schemas), element_name,
                      DictMerge(d, sm[Head(schemas)][element_name]))

_get_dict(sm, c, mods, element_name, imports) ==
    LET s == all_schema(sm, c, mods, imports)
    IN  [cache |-> s.cache, result |-> MergeSchemas(sm, s.result, element_name, <<>>)]

Memo(c, mods, method, args) ==
    {e \in c.elems : e.mods = __key(mods) /\ e.method = method /\ e.args = args}

Memoised(c, mods, method, args, r) ==
    [c EXCEPT !.elems = @ \cup
        {[mods |-> __key(mods), method |-> method, args |-> args, result |-> r]}]

all_classes(sm, c, mods, args) ==
    LET hit == Memo(c, mods, "all_classes", args)
    IN  IF hit # {}
        THEN [cache |-> c, result |-> (CHOOSE e \in hit : TRUE).result]
        ELSE LET g == _get_dict(sm, c, mods, CLASSES, ArgImports(args))
             IN  [cache |-> Memoised(g.cache, mods, "all_classes", args, g.result),
                  result |-> g.result]

\* `for aname, a in c.attributes.items(): if aname not in slots: slots[aname] = a`
RECURSIVE AddAttributes(_, _)
AddAttributes(slots, attrs) ==
    IF attrs = <<>> THEN slots
    ELSE AddAttributes(
            IF DictHas(slots, Head(attrs)[1]) THEN slots
            ELSE DictSet(slots, Head(attrs)[1], Head(attrs)[2]),
            Tail(attrs))

RECURSIVE AddClassAttributes(_, _)
AddClassAttributes(slots, classes) ==
    IF classes = <<>> THEN slots
    ELSE AddClassAttributes(AddAttributes(slots, Head(classes)[2].attributes),
                            Tail(classes))

\* attributes=True, the default.
all_slots(sm, c, mods, args) ==
    LET hit == Memo(c, mods, "all_slots", args)
    IN  IF hit # {}
        THEN [cache |-> c, result |-> (CHOOSE e \in hit : TRUE).result]
        ELSE LET g == _get_dict(sm, c, mods, SLOTS, ArgImports(args))
                 k == all_classes(sm, g.cache, mods, "()")
                 r == AddClassAttributes(g.result, k.result)
             IN  [cache |-> Memoised(k.cache, mods, "all_slots", args, r),
                  result |-> r]

\* all_enums, all_types, all_subsets: `return self._get_dict(KIND, imports)`.
all_plain(method, element_name, sm, c, mods, args) ==
    LET hit == Memo(c, mods, method, args)
    IN  IF hit # {}
        THEN [cache |-> c, result |-> (CHOOSE e \in hit : TRUE).result]
        ELSE LET g == _get_dict(sm, c, mods, element_name, ArgImports(args))
             IN  [cache |-> Memoised(g.cache, mods, method, args, g.result),
                  result |-> g.result]

all_enums(sm, c, mods, args) == all_plain("all_enums", ENUMS, sm, c, mods, args)
all_types(sm, c, mods, args) == all_plain("all_types", TYPES, sm, c, mods, args)
all_subsets(sm, c, mods, args) == all_plain("all_subsets", SUBSETS, sm, c, mods, args)

(***************************************************************************)
(* SchemaView: mutation methods.                                           *)
(***************************************************************************)
\* Bounds of the view's model: the number of set_modified() calls and the
\* number of entries the tables hold under the current key.
MaxMods == 2
MaxCache == 1

set_modified_forgotten(mods) == mods

\* `self._hash = None; self.modifications += 1`
set_modified(mods) == mods + 1

\* The tables as the state keeps them: the entries under the current key.
\* modifications only grows (set_modified is its one writer), so an entry
\* under an older key can never be hit again and is left out of the state.
Live(c, mods) ==
    [schemas |-> {e \in c.schemas : e.mods = __key(mods)},
     elems |-> {e \in c.elems : e.mods = __key(mods)}]

NoResult == <<>>

NoTables == [schemas |-> {}, elems |-> {}]

Called(op, method, args, result) ==
    [op |-> op, method |-> method, args |-> args, result |-> result]

\* self.schema.<kind>[el.name] = el; self.set_modified()
AddElement(kind, method, el) ==
    /\ modifications < MaxMods
    /\ schema_map' = [schema_map EXCEPT ![RootName][kind] = DictSet(@, el.name, el)]
    /\ modifications' = set_modified(modifications)
    /\ cache' = Live(cache, modifications')
    /\ last' = Called("mutate", method, el.name, NoResult)

\* del self.schema.<kind>[name]; self.set_modified().  A name the root
\* schema does not hold raises KeyError before anything is changed.
DeleteElement(kind, method, name) ==
    /\ modifications < MaxMods
    /\ IF DictHas(schema_map[RootName][kind], name)
       THEN /\ schema_map' = [schema_map EXCEPT ![RootName][kind] = DictDel(@, name)]
            /\ modifications' = set_modified(modifications)
            /\ cache' = Live(cache, modifications')
            /\ last' = Called("mutate", method, name, NoResult)
       ELSE /\ UNCHANGED <<schema_map, modifications, cache>>
            /\ last' = Called("KeyError", method, name, NoResult)

\* The element definitions the callers of the model pass in.
ClassInputs ==
    { ClassDef("X", 2, None, <<>>, <<>>),
      ClassDef("Y", 1, "X", <<"X">>, << <<"a", ElemDef("a", 3)>> >>) }
SlotInputs == { ElemDef("s", 2), ElemDef("a", 1) }
EnumInputs == { ElemDef("e", 2) }
TypeInputs == { ElemDef("t", 2) }
SubsetInputs == { ElemDef("u", 2) }

ClassNames == {"X", "Y", "K"}
SlotNames == {"s", "a"}
EnumNames == {"e"}
TypeNames == {"t"}
SubsetNames == {"u"}

add_class == \E cls \in ClassInputs : AddElement(CLASSES, "add_class", cls)
add_slot == \E slot \in SlotInputs : AddElement(SLOTS, "add_slot", slot)
add_enum == \E enum \in EnumInputs : AddElement(ENUMS, "add_enum", enum)
add_type == \E type_def \in TypeInputs : AddElement(TYPES, "add_type", type_def)
add_subset == \E subset \in SubsetInputs : AddElement(SUBSETS, "add_subset", subset)

delete_slot == \E n \in SlotNames : DeleteElement(SLOTS, "delete_slot", n)
delete_enum == \E n \in EnumNames : DeleteElement(ENUMS, "delete_enum", n)
delete_type == \E n \in TypeNames : DeleteElement(TYPES, "delete_type", n)
delete_subset == \E n \in SubsetNames : DeleteElement(SUBSETS, "delete_subset", n)

\* class_children(class_name): the names x of all_classes(imports=True)
\* with x.is_a == class_name or class_name in x.mixins, in dict order.
class_children(classes, class_name) ==
    LET kids == SelectSeq(classes,
                    LAMBDA e : e[2].is_a = class_name \/ class_name \in Range(e[2].mixins))
    IN  [i \in 1..Len(kids) |-> kids[i][1]]

\* ch.mixins.remove(class_name): the first occurrence goes.
ListRemove(l, x) ==
    LET i == CHOOSE j \in 1..Len(l) : l[j] = x /\ \A k \in 1..(j - 1) : l[k] # x
    IN  SubSeq(l, 1, i - 1) \o SubSeq(l, i + 1, Len(l))

\* `del ch.is_a` and `ch.mixins.remove(class_name)` on one child.
Unreference(ch, class_name) ==
    [ch EXCEPT !.is_a = IF @ = class_name THEN None ELSE @,
               !.mixins = IF class_name \in Range(@) THEN ListRemove(@, class_name) ELSE @]

\* The schema whose document holds the definition of class chn that
\* get_class(chn) returns: the last one of the closure that defines it.
OwnerOf(sm, schemas, chn) ==
    LET holders == {i \in 1..Len(schemas) : DictHas(sm[schemas[i]].classes, chn)}
    IN  schemas[CHOOSE i \in holders : \A j \in holders : j <= i]

\* The loop `for chn in children` of delete_class.  The children are the
\* objects all_classes handed out before the deletion; the deleted class
\* itself (a class that names itself as parent) is no longer in a document.
RECURSIVE UnreferenceAll(_, _, _, _)
UnreferenceAll(sm, schemas, children, class_name) ==
    IF children = <<>> THEN sm
    ELSE LET chn == Head(children)
             o == OwnerOf(sm, schemas, chn)
             sm2 == IF chn = class_name THEN sm
                    ELSE [sm EXCEPT ![o].classes =
                            DictSet(@, chn, Unreference(DictGet(@, chn), class_name))]
         IN  UnreferenceAll(sm2, schemas, Tail(children), class_name)

\* delete_class(class_name, delete_references=True)
delete_class ==
    \E class_name \in ClassNames :
        LET k == all_classes(schema_map, cache, modifications, "imports=True")
            children == class_children(k.result, class_name)
            schemas == all_schema(schema_map, k.cache, modifications, TRUE).result
        IN  /\ modifications < MaxMods
            /\ IF DictHas(schema_map[RootName].classes, class_name)
               THEN /\ schema_map' = UnreferenceAll(
                            [schema_map EXCEPT ![RootName].classes = DictDel(@, class_name)],
                            schemas, children, class_name)
                    /\ modifications' = set_modified(modifications)
                    /\ cache' = Live(k.cache, modifications')
                    /\ last' = Called("mutate", "delete_class", class_name, NoResult)
               ELSE /\ UNCHANGED <<schema_map, modifications>>
                    /\ cache' = k.cache
                    /\ last' = Called("KeyError", "delete_class", class_name, NoResult)

(***************************************************************************)
(* SchemaView: the queries a caller makes.                                 *)
(***************************************************************************)
Query(method, args, r) ==
    /\ \/ r.cache = cache
       \/ Cardinality(cache.elems) < MaxCache
    /\ cache' = r.cache
    /\ last' = Called("query", method, args, r.result)
    /\ UNCHANGED <<schema_map, modifications>>

query_all_classes ==
    \E a \in ArgForms :
        Query("all_classes", a, all_classes(schema_map, cache, modifications, a))
query_all_slots ==
    \E a \in ArgForms :
        Query("all_slots", a, all_slots(schema_map, cache, modifications, a))
query_all_enums ==
    \E a \in ArgForms :
        Query("all_enums", a, all_enums(schema_map, cache, modifications, a))
query_all_types ==
    \E a \in ArgForms :
        Query("all_types", a, all_types(schema_map, cache, modifications, a))
query_all_subsets ==
    \E a \in ArgForms :
        Query("all_subsets", a, all_subsets(schema_map, cache, modifications, a))

\* The view right after SchemaView(schema): the root document "main" imports
\* "core"; schema_map[sn] is the document load_import hands out for sn.
InitialSchemaMap ==
    [sn \in {RootName, "core"} |->
        IF sn = RootName
        THEN SchemaDef(RootName, <<"core">>,
                << <<"X", ClassDef("X", 1, None, <<>>, << <<"a", ElemDef("a", 4)>> >>)>> >>,
                << <<"s", ElemDef("s", 1)>> >>,
                << <<"e", ElemDef("e", 1)>> >>,
                << <<"t", ElemDef("t", 1)>> >>,
                << <<"u", ElemDef("u", 1)>> >>)
        ELSE SchemaDef("core", <<>>,
                << <<"X", ClassDef("X", 0, None, <<>>, <<>>)>>,
                   <<"K", ClassDef("K", 0, "X", <<"X">>, <<>>)>> >>,
                << <<"s", ElemDef("s", 0)>>, <<"k", ElemDef("k", 0)>> >>,
                << <<"e", ElemDef("e", 0)>> >>,
                << <<"t", ElemDef("t", 0)>> >>,
                <<>>)]

InitView ==
    /\ schema_map = InitialSchemaMap
    /\ modifications = 0
    /\ cache = NoTables
    /\ last = Called("init", "SchemaView", "()", NoResult)
    /\ ic = IdleClosure
    /\ IdleInduce
    /\ ld = IdleLoad
    /\ dp = IdleDump

ViewStep ==
    \/ add_class \/ add_slot \/ add_enum \/ add_type \/ add_subset
    \/ delete_class \/ delete_slot \/ delete_enum \/ delete_type \/ delete_subset
    \/ query_all_classes \/ query_all_slots \/ query_all_enums
    \/ query_all_types \/ query_all_subsets

NextView == ViewStep /\ UNCHANGED <<ic, induceVars, ld, dp>>

SpecView == InitView /\ [][NextView]_vars

(***************************************************************************)
(* Claims on the memoised view.                                            *)
(***************************************************************************)
\* What a query computes from the documents as they are now, no table used.
Stored(sm, method, args) ==
    CASE method = "all_classes" -> all_classes(sm, NoTables, 0, args).result
      [] method = "all_slots" -> all_slots(sm, NoTables, 0, args).result
      [] method = "all_enums" -> all_enums(sm, NoTables, 0, args).result
      [] method = "all_types" -> all_types(sm, NoTables, 0, args).result
      [] method = "all_subsets" -> all_subsets(sm, NoTables, 0, args).result

\* C1: after any sequence of add_* / delete_* calls, a query all_classes,
\* all_slots, all_enums, all_types or all_subsets returns exactly the
\* elements the schema documents hold at the time of the call; a result
\* memoised before the latest mutation is never returned.
C1_QueryReturnsStored ==
    last.op = "query" => last.result = Stored(schema_map, last.method, last.args)

\* C1 witness: a query answered after two mutations, with a result that
\* differs from what the same query gave on the freshly built view.
C1_Witness ==
    /\ last.op = "query"
    /\ modifications = 2
    /\ last.result # Stored(InitialSchemaMap, last.method, last.args)
    /\ last.result = Stored(schema_map, last.method, last.args)

(***************************************************************************)
(* SpecImports: imports_closure stepped over the import graphs of a small  *)
(* set of documents, followed by the queries that merge along the closure. *)
(***************************************************************************)
\* The documents that exist; "d/a" and "d/b" lie in the folder "d".
SchemaNames == {"main", "a", "d/a", "d/b"}

\* What an import line of a document may say.
ImportTexts == {"main", "a", "b", "d/a"}

\* The number of import lines of all documents together.
MaxImportLines == 4

ImportLists(n) == [1..n -> ImportTexts]

LineCounts ==
    {L \in [SchemaNames -> 0..MaxImportLines] :
        L["main"] + L["a"] + L["d/a"] + L["d/b"] <= MaxImportLines}

ImportGraphs ==
    UNION { { [sn \in SchemaNames |->
                 CASE sn = "main" -> x1 [] sn = "a" -> x2
                   [] sn = "d/a" -> x3 [] OTHER -> x4] :
              x1 \in ImportLists(L["main"]), x2 \in ImportLists(L["a"]),
              x3 \in ImportLists(L["d/a"]), x4 \in ImportLists(L["d/b"]) } :
            L \in LineCounts }

\* Every document but the root defines an element "n" of each kind, and the
\* root does or does not; `ver` tells whose definition it is.
OwnVer(sn) == CASE sn = "main" -> 0 [] sn = "a" -> 1 [] sn = "d/a" -> 2 [] OTHER -> 3

DocumentOf(sn, imps, defines) ==
    LET one == IF defines THEN << <<"n", ElemDef("n", OwnVer(sn))>> >> ELSE <<>>
        cls == IF defines
               THEN << <<"n", ClassDef("n", OwnVer(sn), None, <<>>, <<>>)>> >>
               ELSE <<>>
    IN  SchemaDef(sn, imps, cls, one, one, one, one)

InitImports ==
    /\ \E g \in ImportGraphs, rootDefines \in BOOLEAN :
          schema_map = [sn \in SchemaNames |->
                          DocumentOf(sn, g[sn], sn # RootName \/ rootDefines)]
    /\ modifications = 0
    /\ cache = NoTables
    /\ last = Called("init", "SchemaView", "()", NoResult)
    /\ ic = IdleClosure
    /\ IdleInduce
    /\ ld = IdleLoad
    /\ dp = IdleDump

\* imports_closure(imports): `if not imports: return todo`
closure_call ==
    /\ ic.pc = "idle"
    /\ \E imports \in BOOLEAN :
          ic' = IF imports
                THEN [pc |-> "loop", imports |-> TRUE, todo |-> <<RootName>>,
                      visited |-> {}, closure |-> <<>>, result |-> <<>>]
                ELSE [pc |-> "done", imports |-> FALSE, todo |-> <<RootName>>,
                      visited |-> {}, closure |-> <<>>, result |-> <<RootName>>]
    /\ UNCHANGED viewVars

LoopState == [todo |-> ic.todo, visited |-> ic.visited, closure |-> ic.closure,
              raised |-> FALSE]

\* One iteration of the while loop.
closure_loop ==
    /\ ic.pc = "loop"
    /\ ic.todo # <<>>
    /\ LET st == ClosureIter(ImportsOf(schema_map), LoopState)
       IN  ic' = IF st.raised
                 THEN [ic EXCEPT !.pc = "raised"]
                 ELSE [ic EXCEPT !.todo = st.todo, !.visited = st.visited,
                                 !.closure = st.closure]
    /\ UNCHANGED viewVars

\* `closure = list(dict.fromkeys(closure).keys())` and the return.
closure_return ==
    /\ ic.pc = "loop"
    /\ ic.todo = <<>>
    /\ ic' = [ic EXCEPT !.pc = "done", !.result = ClosureResult(LoopState)]
    /\ UNCHANGED viewVars

\* all_classes() .. all_subsets() on the view whose closure was just stepped.
closure_query ==
    /\ ic.pc = "done"
    /\ ic.imports
    /\ \/ Query("all_classes", "()", all_classes(schema_map, cache, modifications, "()"))
       \/ Query("all_slots", "()", all_slots(schema_map, cache, modifications, "()"))
       \/ Query("all_enums", "()", all_enums(schema_map, cache, modifications, "()"))
       \/ Query("all_types", "()", all_types(schema_map, cache, modifications, "()"))
       \/ Query("all_subsets", "()", all_subsets(schema_map, cache, modifications, "()"))
    /\ UNCHANGED ic

NextImports ==
    (closure_call \/ closure_loop \/ closure_return \/ closure_query)
        /\ UNCHANGED <<induceVars, ld, dp>>

SpecImports == InitImports /\ [][NextImports]_vars

\* The documents a document imports directly, by the names they are loaded
\* under.
DirectImports(sm, sn) ==
    IF sn \in DOMAIN sm
    THEN {ResolveImport(sn, sm[sn].imports[k]) : k \in 1..Len(sm[sn].imports)}
    ELSE {}

RECURSIVE ReachedFrom(_, _)
ReachedFrom(sm, S) ==
    LET more == S \cup UNION {DirectImports(sm, sn) : sn \in S}
    IN  IF more = S THEN S ELSE ReachedFrom(sm, more)

\* The import graph below the root has no cycle and names only documents
\* that exist.
Acyclic(sm) ==
    \A sn \in ReachedFrom(sm, {RootName}) :
        /\ sn \in DOMAIN sm
        /\ sn \notin ReachedFrom(sm, DirectImports(sm, sn))

Pos(x, s) == CHOOSE k \in 1..Len(s) : s[k] = x

Defines(sm, sn, method, name) ==
    LET kind == CASE method = "all_classes" -> CLASSES
                  [] method = "all_slots" -> SLOTS
                  [] method = "all_enums" -> ENUMS
                  [] method = "all_types" -> TYPES
                  [] OTHER -> SUBSETS
    IN  DictHas(sm[sn][kind], name)

\* C10: for an acyclic import graph, every schema of the list that
\* imports_closure returns stands later in the list than every schema it
\* directly imports (leaf first), the root included.
C10_LeafFirst ==
    (ic.pc = "done" /\ ic.imports /\ Acyclic(schema_map)) =>
        \A S \in Range(ic.result) :
            \A T \in DirectImports(schema_map, S) :
                /\ T \in Range(ic.result)
                /\ Pos(T, ic.result) < Pos(S, ic.result)

\* C11: whatever the import graph, cycles through the root included, the
\* list imports_closure(imports=True) returns ends with the root's name.
C11_RootLast ==
    (ic.pc = "done" /\ ic.imports) =>
        /\ ic.result # <<>>
        /\ ic.result[Len(ic.result)] = RootName

\* C2: a query that merges across imports returns, for a name defined both
\* in an importing schema and in a schema it imports, not the imported
\* schema's definition; and a name the root defines is returned with the
\* root's definition.  (Acyclic graphs, where "importing" has one direction.)
C2_ImportingSchemaWins ==
    (last.op = "query" /\ ic.pc = "done" /\ ic.imports /\ Acyclic(schema_map)) =>
        /\ \A S \in Range(ic.result) :
              \A T \in DirectImports(schema_map, S) :
                  (Defines(schema_map, S, last.method, "n")
                      /\ Defines(schema_map, T, last.method, "n"))
                  => DictGet(last.result, "n").ver # OwnVer(T)
        /\ Defines(schema_map, RootName, last.method, "n")
              => DictGet(last.result, "n").ver = OwnVer(RootName)

(***************************************************************************)
(* Slot induction: class_ancestors (_closure over class_parents) and       *)
(* induced_slot.  A metaslot value is NoValue (Python None) or Some(x).     *)
(* Slots have no is_a and no mixins here, so the propagation over          *)
(* slot_ancestors copies the slot's own values onto itself.                *)
(***************************************************************************)
NoValue == <<>>
Some(x) == <<x>>

\* vars(SlotDefinition("__FAKE")).keys(), the metaslots modelled.
_metaslots_for_slot ==
    <<"name", "range", "required", "identifier", "key", "inlined",
      "inlined_as_list", "minimum_value", "maximum_value", "alias", "owner",
      "domain_of">>

SlotDefinition(n) ==
    [name |-> Some(n), range |-> NoValue, required |-> NoValue,
     identifier |-> NoValue, key |-> NoValue, inlined |-> NoValue,
     inlined_as_list |-> NoValue, minimum_value |-> NoValue,
     maximum_value |-> NoValue, alias |-> NoValue, owner |-> NoValue,
     domain_of |-> Some(<<>>), is_a |-> None, mixins |-> <<>>]

ClassDefinition(n, isa, mix, sl, usage, attrs) ==
    [name |-> n, is_a |-> isa, mixins |-> mix, slots |-> sl,
     slot_usage |-> usage, attributes |-> attrs]

\* is_empty: None and the empty list are empty.
is_empty(metaslot_name, v) ==
    \/ v = NoValue
    \/ metaslot_name = "domain_of" /\ v[1] = <<>>

\* for v in vals: if v not in visited and v not in rv: todo.append(v); rv.append(v)
RECURSIVE _closure_for(_, _, _, _)
_closure_for(vals, visited, todo, rv) ==
    IF vals = <<>> THEN [todo |-> todo, rv |-> rv]
    ELSE LET v == Head(vals)
         IN  IF v \notin visited /\ v \notin Range(rv)
             THEN _closure_for(Tail(vals), visited, Append(todo, v), Append(rv, v))
             ELSE _closure_for(Tail(vals), visited, todo, rv)

\* while len(todo) > 0: `i = todo.pop()` depth first, else `i = todo[0];
\* todo = todo[1:]`.
RECURSIVE _closure_while(_, _, _, _, _)
_closure_while(f, visited, todo, rv, depth_first) ==
    IF todo = <<>> THEN rv
    ELSE LET i == IF depth_first THEN todo[Len(todo)] ELSE todo[1]
             left == IF depth_first THEN SubSeq(todo, 1, Len(todo) - 1) ELSE Tail(todo)
             seen == visited \cup {i}
             r == _closure_for(DictGet(f, i), seen, left, rv)
         IN  _closure_while(f, seen, r.todo, r.rv, depth_first)

\* _closure that puts x in front whatever `reflexive` says.
_closure_always_reflexive(f, x, reflexive, depth_first) ==
    _closure_while(f, {}, <<x>>, <<x>>, depth_first)

_closure(f, x, reflexive, depth_first) ==
    _closure_while(f, {}, <<x>>, IF reflexive THEN <<x>> ELSE <<>>, depth_first)

_parents_is_a_first(e) ==
    (IF e.is_a # None THEN <<e.is_a>> ELSE <<>>) \o e.mixins

\* parents = copy(e.mixins); if e.is_a is not None: parents.append(e.is_a)
_parents(e) ==
    e.mixins \o (IF e.is_a # None THEN <<e.is_a>> ELSE <<>>)

get_class(sch, class_name) == DictGet(sch.classes, class_name)

class_parents(sch, class_name) == _parents(get_class(sch, class_name))

\* lambda x: self.class_parents(x, ...), as a table
RECURSIVE ParentsOf(_)
ParentsOf(cls) ==
    IF cls = <<>> THEN <<>>
    ELSE << <<Head(cls)[1], _parents(Head(cls)[2])>> >> \o ParentsOf(Tail(cls))

class_ancestors(sch, class_name) ==
    _closure(ParentsOf(sch.classes), class_name, TRUE, TRUE)

\* Where the slot object that induced_slot copies lives: a top-level slot,
\* the attribute of a class, or the copy get_slot makes of an attribute.
AtSlots == "slots"
AtAttributes == "attributes"
AtCopy == "copy"

NotFound == [found |-> FALSE, at |-> "nowhere", cls |-> None, slot |-> SlotDefinition("")]

RECURSIVE AttributeOwners(_, _)
AttributeOwners(cls, slot_name) ==
    IF cls = <<>> THEN <<>>
    ELSE (IF DictHas(Head(cls)[2].attributes, slot_name)
          THEN <<Head(cls)[1]>> ELSE <<>>)
         \o AttributeOwners(Tail(cls), slot_name)

\* get_slot(slot_name, imports, attributes)
get_slot(sch, slot_name, attributes) ==
    LET owners == AttributeOwners(sch.classes, slot_name)
    IN  IF DictHas(sch.slots, slot_name)
        THEN [found |-> TRUE, at |-> AtSlots, cls |-> None,
              slot |-> DictGet(sch.slots, slot_name)]
        ELSE IF ~attributes \/ owners = <<>> THEN NotFound
        ELSE IF Len(owners) > 1
        THEN [found |-> TRUE, at |-> "stub", cls |-> None,
              slot |-> SlotDefinition(slot_name)]
        ELSE LET c == get_class(sch, owners[1])
             IN  [found |-> TRUE, at |-> AtCopy, cls |-> c.name,
                  slot |-> [DictGet(c.attributes, slot_name)
                               EXCEPT !.owner = Some(c.name)]]

\* The slot induced_slot starts from (lines up to `induced_slot = copy(slot)`).
RECURSIVE FirstWithAttribute(_, _, _)
FirstWithAttribute(sch, ancs, slot_name) ==
    IF ancs = <<>> THEN <<>>
    ELSE IF DictHas(get_class(sch, Head(ancs)).attributes, slot_name)
    THEN <<Head(ancs)>>
    ELSE FirstWithAttribute(sch, Tail(ancs), slot_name)

\* The lookup that asks the context class only.
StartingSlot_own_class(sch, slot_name, class_name) ==
    IF class_name = None THEN get_slot(sch, slot_name, TRUE)
    ELSE IF ~DictHas(get_class(sch, class_name).attributes, slot_name)
    THEN get_slot(sch, slot_name, FALSE)
    ELSE [found |-> TRUE, at |-> AtAttributes, cls |-> class_name,
          slot |-> DictGet(get_class(sch, class_name).attributes, slot_name)]

StartingSlot(sch, slot_name, class_name) ==
    IF class_name = None THEN get_slot(sch, slot_name, TRUE)
    ELSE LET an == FirstWithAttribute(sch, class_ancestors(sch, class_name), slot_name)
         IN  IF an = <<>> THEN get_slot(sch, slot_name, FALSE)
             ELSE [found |-> TRUE, at |-> AtAttributes, cls |-> an[1],
                   slot |-> DictGet(get_class(sch, an[1]).attributes, slot_name)]

Max2(x, y) == IF x >= y THEN x ELSE y
Min2(x, y) == IF x <= y THEN x ELSE y

mix_max_value_dict_keeps_nearest(metaslot_name, x, y) == y

\* {"maximum_value": lambda x, y: min(x, y), "minimum_value": lambda x, y: max(x, y)}
mix_max_value_dict(metaslot_name, x, y) ==
    IF metaslot_name = "maximum_value" THEN Min2(x, y) ELSE Max2(x, y)

MergedMetaslots == {"maximum_value", "minimum_value"}

\* getattr(a.slot_usage.get(slot_name, {}), metaslot_name, None)
UsageValue(a, slot_name, metaslot_name) ==
    IF DictHas(a.slot_usage, slot_name)
    THEN DictGet(a.slot_usage, slot_name)[metaslot_name]
    ELSE NoValue

\* for an in reversed(propagated_from): the body, on the value v
RECURSIVE FoldUsage(_, _, _, _, _)
FoldUsage(sch, slot_name, metaslot_name, v, ans) ==
    IF ans = <<>> THEN v
    ELSE LET v2 == UsageValue(get_class(sch, Head(ans)), slot_name, metaslot_name)
             nv == IF v = NoValue THEN v2
                   ELSE IF metaslot_name \in MergedMetaslots
                   THEN (IF v2 # NoValue
                         THEN Some(mix_max_value_dict(metaslot_name, v[1], v2[1]))
                         ELSE v)
                   ELSE IF ~is_empty(metaslot_name, v2) THEN v2
                   ELSE v
         IN  FoldUsage(sch, slot_name, metaslot_name, nv, Tail(ans))

RECURSIVE Reversed(_)
Reversed(l) == IF l = <<>> THEN <<>> ELSE Append(Reversed(Tail(l)), Head(l))

\* One iteration of `for metaslot_name in self._metaslots_for_slot()`: the
\* value the metaslot ends with (None leaves the copy's value as it is).
FoldMetaslot(sch, slot_name, propagated_from, slot, metaslot_name) ==
    LET v == FoldUsage(sch, slot_name, metaslot_name, slot[metaslot_name],
                       Reversed(propagated_from))
    IN  IF v = NoValue /\ metaslot_name = "range" THEN sch.default_range ELSE v

\* The whole loop.  An iteration reads and writes its own metaslot only,
\* but for `induced_slot.owner = an`, which every iteration repeats and
\* which the iterations after "owner" leave at the context class.
FoldMetaslots(sch, slot_name, propagated_from, slot) ==
    LET F(m) == FoldMetaslot(sch, slot_name, propagated_from, slot, m)
    IN  [name |-> F("name"), range |-> F("range"), required |-> F("required"),
         identifier |-> F("identifier"), key |-> F("key"),
         inlined |-> F("inlined"), inlined_as_list |-> F("inlined_as_list"),
         minimum_value |-> F("minimum_value"),
         maximum_value |-> F("maximum_value"), alias |-> F("alias"),
         owner |-> IF propagated_from = <<>> THEN F("owner")
                   ELSE Some(propagated_from[1]),
         domain_of |-> F("domain_of"), is_a |-> slot.is_a, mixins |-> slot.mixins]

\* underscore(slot_name): blanks become underscores.
underscore(n) == CASE n = "s" -> "s" [] n = "no such slot" -> "no_such_slot" [] OTHER -> n

\* for c in self.all_classes().values(): ... induced_slot.domain_of.append(c.name)
RECURSIVE AppendDomainOf(_, _, _)
AppendDomainOf(cls, name, domain_of) ==
    IF cls = <<>> THEN domain_of
    ELSE LET c == Head(cls)[2]
             hit == (name \in Range(c.slots) \/ DictHas(c.attributes, name))
                    /\ c.name \notin Range(domain_of)
         IN  AppendDomainOf(Tail(cls), name,
                            IF hit THEN Append(domain_of, c.name) ELSE domain_of)

\* The writes induced_slot makes to the slot object it started from:
\* slot.inlined, slot.required, and the domain_of list the copy shares.
WriteBack(sch, found, inlined, required, domain_of) ==
    LET upd(sl) == [sl EXCEPT !.inlined = inlined, !.required = required,
                              !.domain_of = domain_of]
        name == found.slot.name[1]
    IN  CASE found.at = AtSlots ->
               [sch EXCEPT !.slots = DictSet(sch.slots, name, upd(found.slot))]
          [] found.at = AtAttributes ->
               LET c == get_class(sch, found.cls)
               IN  [sch EXCEPT !.classes = DictSet(sch.classes, c.name,
                       [c EXCEPT !.attributes = DictSet(c.attributes, name, upd(found.slot))])]
          [] found.at = AtCopy ->
               LET c == get_class(sch, found.cls)
                   a == DictGet(c.attributes, name)
               IN  [sch EXCEPT !.classes = DictSet(sch.classes, c.name,
                       [c EXCEPT !.attributes = DictSet(c.attributes, name,
                           [a EXCEPT !.domain_of = domain_of])])]
          [] OTHER -> sch

\* slot_ancestors(slot_name, reflexive=True)
slot_ancestors(sch, slot_name) ==
    _closure(ParentsOf(sch.slots), slot_name, TRUE, TRUE)

\* SlotDefinition._inherited_slots, those of the metaslots kept here.
_inherited_slots ==
    {"range", "required", "identifier", "key", "inlined", "inlined_as_list",
     "minimum_value", "maximum_value"}

\* `if getattr(anc_slot, metaslot_name, None):` the truth value Python gives
\* a flag, a number, a name.
Truthy(metaslot_name, v) ==
    /\ v # NoValue
    /\ CASE metaslot_name \in MergedMetaslots -> v[1] # 0
         [] metaslot_name = "range" -> v[1] # ""
         [] OTHER -> v[1]

\* for anc_sn in reversed(slot_anc_names): every inherited metaslot the
\* ancestor slot has a true value for is set on the copy.
RECURSIVE PropagateFromAncestors(_, _, _)
PropagateFromAncestors(sch, anc_sns, copied) ==
    IF anc_sns = <<>> THEN copied
    ELSE LET anc_slot == DictGet(sch.slots, Head(anc_sns))
         IN  PropagateFromAncestors(sch, Tail(anc_sns),
                 [m \in DOMAIN copied |->
                     IF m \in _inherited_slots /\ Truthy(m, anc_slot[m])
                     THEN anc_slot[m] ELSE copied[m]])

\* induced_slot without the loop that appends to domain_of.
induced_slot_domain_of_untouched(sch, slot_name, class_name) ==
    LET found == StartingSlot(sch, slot_name, class_name)
        slot == found.slot
        propagated_from == IF class_name = None THEN <<>>
                           ELSE class_ancestors(sch, class_name)
        copied == IF found.at = AtSlots
                  THEN PropagateFromAncestors(sch, Reversed(slot_ancestors(sch, slot_name)),
                                              slot)
                  ELSE slot
        folded == FoldMetaslots(sch, slot_name, propagated_from, copied)
        inlined == IF slot.inlined_as_list = Some(TRUE) THEN Some(TRUE) ELSE slot.inlined
        required == IF slot.identifier = Some(TRUE) \/ slot.key = Some(TRUE)
                    THEN Some(TRUE) ELSE slot.required
        aliased == IF folded.alias = NoValue \/ folded.alias = Some("")
                   THEN [folded EXCEPT !.alias = Some(underscore(slot_name))]
                   ELSE folded
        domain_of == aliased.domain_of[1]
    IN  IF ~found.found
        THEN [raised |-> TRUE, result |-> SlotDefinition(""), schema |-> sch,
              at |-> found.at, cls |-> found.cls]
        ELSE [raised |-> FALSE,
              result |-> [aliased EXCEPT !.domain_of = Some(domain_of)],
              schema |-> WriteBack(sch, found, inlined, required, Some(domain_of)),
              at |-> found.at, cls |-> found.cls]

\* induced_slot(slot_name, class_name): what it raises or returns, and the schema after.
induced_slot(sch, slot_name, class_name) ==
    LET found == StartingSlot(sch, slot_name, class_name)
        slot == found.slot
        propagated_from == IF class_name = None THEN <<>>
                           ELSE class_ancestors(sch, class_name)
        copied == IF found.at = AtSlots
                  THEN PropagateFromAncestors(sch, Reversed(slot_ancestors(sch, slot_name)),
                                              slot)
                  ELSE slot
        folded == FoldMetaslots(sch, slot_name, propagated_from, copied)
        inlined == IF slot.inlined_as_list = Some(TRUE) THEN Some(TRUE) ELSE slot.inlined
        required == IF slot.identifier = Some(TRUE) \/ slot.key = Some(TRUE)
                    THEN Some(TRUE) ELSE slot.required
        aliased == IF folded.alias = NoValue \/ folded.alias = Some("")
                   THEN [folded EXCEPT !.alias = Some(underscore(slot_name))]
                   ELSE folded
        domain_of == AppendDomainOf(sch.classes, aliased.name[1], aliased.domain_of[1])
    IN  IF ~found.found
        THEN [raised |-> TRUE, result |-> SlotDefinition(""), schema |-> sch,
              at |-> found.at, cls |-> found.cls]
        ELSE [raised |-> FALSE,
              result |-> [aliased EXCEPT !.domain_of = Some(domain_of)],
              schema |-> WriteBack(sch, found, inlined, required, Some(domain_of)),
              at |-> found.at, cls |-> found.cls]

\* The domain_of list a cached result shares with the slot it was copied from.
SharedDomainOf(sch, e) ==
    LET name == e.result.name[1]
    IN  CASE e.at = AtSlots -> DictGet(sch.slots, name).domain_of
          [] e.at \in {AtAttributes, AtCopy} ->
               DictGet(get_class(sch, e.cls).attributes, name).domain_of
          [] OTHER -> e.result.domain_of

InducedArgs == {<<"s", "C">>, <<"s", None>>, <<"no such slot", "C">>}

\* The number of results the lru_cache of induced_slot may hold.
MaxInduced == 1

\* A call of the memoised induced_slot: a hit returns the stored object, a
\* miss runs the body; an exception stores nothing.  lru_cache keys a call by
\* its arguments as they are written, so induced_slot(sn, cn) and
\* induced_slot(sn, cn, imports=imports) have a result each.
InducedCall(sn, cn, call) ==
    LET hits == {e \in induced_cache :
                    e.slot_name = sn /\ e.class_name = cn /\ e.call = call}
    IN  IF hits # {}
        THEN \E hit \in hits :
                 /\ induced' = [op |-> "induced_slot", slot_name |-> sn,
                                class_name |-> cn, raised |-> FALSE,
                                result |-> [hit.result EXCEPT
                                              !.domain_of = SharedDomainOf(schema, hit)]]
                 /\ UNCHANGED <<schema, induced_cache>>
        ELSE \E r \in {induced_slot(schema, sn, cn)} :
                 /\ r.raised \/ Cardinality({e \in induced_cache : e.call = call}) < MaxInduced
                 /\ induced' = [op |-> "induced_slot", slot_name |-> sn,
                                class_name |-> cn, raised |-> r.raised,
                                result |-> r.result]
                 /\ schema' = r.schema
                 /\ induced_cache' =
                       IF r.raised THEN induced_cache
                       ELSE induced_cache \cup
                              {[slot_name |-> sn, class_name |-> cn, call |-> call,
                                at |-> r.at, cls |-> r.cls, result |-> r.result]}

induced_slot_call ==
    \E args \in InducedArgs : InducedCall(args[1], args[2], "induced_slot(sn, cn)")

NextInduce == induced_slot_call /\ UNCHANGED <<viewVars, ic, ld, dp>>

\* ---- the schemas slot induction is run on ----
\* The classes, the context class first; a class has its parents among the
\* classes after it.
InduceClasses == <<"C", "M1", "M2", "B", "A">>
BoundsClasses == <<"C", "B", "A">>

\* How many mixins the context class may list (the other classes list none).
MaxMixins == 2
\* How many is_a and mixin references a schema holds altogether.
MaxParentLinks == 5
\* How many classes give the slot a slot_usage.
MaxUsages == 2

RECURSIVE MixinLists(_, _)
MixinLists(S, n) ==
    IF n = 0 THEN {<<>>}
    ELSE {<<>>} \cup UNION { {<<m>> \o l : l \in MixinLists(S \ {m}, n - 1)} : m \in S }

RECURSIVE Hierarchies(_, _)
Hierarchies(names, first) ==
    IF names = <<>> THEN {<<>>}
    ELSE LET c == Head(names)
             above == Range(Tail(names))
         IN  { <<[name |-> c, is_a |-> isa, mixins |-> mix]>> \o h :
                 isa \in above \cup {None},
                 mix \in MixinLists(above, IF first THEN MaxMixins ELSE 0),
                 h \in Hierarchies(Tail(names), FALSE) }

RECURSIVE Links(_)
Links(h) ==
    IF h = <<>> THEN 0
    ELSE (IF Head(h).is_a # None THEN 1 ELSE 0) + Len(Head(h).mixins) + Links(Tail(h))

\* Only the context class lists the slot; it is in domain_of of the result.
RECURSIVE ClassesOf(_, _, _, _)
ClassesOf(h, usage, attrs, first) ==
    IF h = <<>> THEN <<>>
    ELSE LET c == Head(h)
         IN  << <<c.name,
                  ClassDefinition(c.name, c.is_a, c.mixins,
                                  IF first THEN <<"s">> ELSE <<>>,
                                  usage[c.name], attrs[c.name])>> >>
             \o ClassesOf(Tail(h), usage, attrs, FALSE)

SchemaOf(h, usage, attrs, slot) ==
    [classes |-> ClassesOf(h, usage, attrs, TRUE),
     slots |-> << <<"s", slot>> >>,
     default_range |-> Some("string")]

NoEntries(names) == [c \in Range(names) |-> <<>>]

\* SpecInduce: slot_usage gives the slot a range, the name of the class.
RangeUsage(carriers) ==
    [c \in Range(InduceClasses) |->
        IF c \in carriers
        THEN << <<"s", [SlotDefinition("s") EXCEPT !.range = Some(c)]>> >>
        ELSE <<>>]

InitInduce ==
    /\ \E h \in Hierarchies(InduceClasses, TRUE), carriers \in SUBSET Range(InduceClasses) :
          /\ Links(h) <= MaxParentLinks
          /\ Cardinality(carriers) <= MaxUsages
          /\ schema = SchemaOf(h, RangeUsage(carriers), NoEntries(InduceClasses),
                               [SlotDefinition("s") EXCEPT !.range = Some("string")])
    /\ induced_cache = {}
    /\ induced = [op |-> "idle"]
    /\ schema_map = InitialSchemaMap
    /\ modifications = 0
    /\ cache = NoTables
    /\ last = Called("init", "SchemaView", "()", NoResult)
    /\ ic = IdleClosure
    /\ ld = IdleLoad
    /\ dp = IdleDump

SpecInduce == InitInduce /\ [][NextInduce]_vars

\* The classes reached from the classes of S over is_a and mixins.
RECURSIVE AncestorSet(_, _)
AncestorSet(sch, S) ==
    LET more == S \cup UNION {Range(class_parents(sch, c)) : c \in S}
    IN  IF more = S THEN S ELSE AncestorSet(sch, more)

ProperAncestors(sch, c) == AncestorSet(sch, Range(class_parents(sch, c)))

InducedFor(slot_name) ==
    /\ induced.op = "induced_slot"
    /\ induced.slot_name = slot_name
    /\ induced.class_name # None
    /\ ~induced.raised

UsageOf(c, metaslot_name) == UsageValue(get_class(schema, c), "s", metaslot_name)

\* C3: when two classes of the context class's ancestor closure both give
\* the slot a range in slot_usage and one is a proper descendant of the
\* other, induced_slot does not return the ancestor's range.
C3_MostSpecificWins ==
    InducedFor("s") =>
        \A A, B \in Range(class_ancestors(schema, induced.class_name)) :
            (/\ A \in ProperAncestors(schema, B)
             /\ UsageOf(A, "range") # NoValue
             /\ UsageOf(B, "range") # NoValue)
            => induced.result.range # UsageOf(A, "range")

RECURSIVE FirstGiving(_, _)
FirstGiving(order, metaslot_name) ==
    IF order = <<>> THEN <<>>
    ELSE IF UsageOf(Head(order), metaslot_name) # NoValue THEN <<Head(order)>>
    ELSE FirstGiving(Tail(order), metaslot_name)

\* C4: among the context class and its direct parents that give the slot a
\* range in slot_usage, induced_slot returns the range of the first one in
\* the order: the class itself, its mixins as listed, its is_a parent.
C4_DirectParentPriority ==
    InducedFor("s") =>
        LET c == get_class(schema, induced.class_name)
            order == <<c.name>> \o c.mixins
                        \o (IF c.is_a # None THEN <<c.is_a>> ELSE <<>>)
            first == FirstGiving(order, "range")
        IN  first # <<>> => induced.result.range = UsageOf(first[1], "range")

\* C4 witness: the context class lists the mixins M2 and M1, both give a
\* range, it has an is_a parent, and the induced range is that of M2.
C4_Witness ==
    /\ InducedFor("s")
    /\ get_class(schema, "C").mixins = <<"M2", "M1">>
    /\ get_class(schema, "C").is_a = "B"
    /\ UsageOf("M1", "range") = Some("M1")
    /\ UsageOf("M2", "range") = Some("M2")
    /\ induced.result.range = Some("M2")

(***************************************************************************)
(* SpecBounds: induced_slot on schemas whose slot_usage, slot and          *)
(* attribute give minimum_value and maximum_value.                         *)
(***************************************************************************)
\* What a class's slot_usage says about the slot: nothing, or one bound.
BoundUsages ==
    {<<>>}
    \cup {<< <<"s", [SlotDefinition("s") EXCEPT !.minimum_value = Some(k)]>> >> : k \in {0, 16}}
    \cup {<< <<"s", [SlotDefinition("s") EXCEPT !.maximum_value = Some(k)]>> >> : k \in {0, 16}}

\* The top-level slot: absent, or with no bound, or with one bound of 5.
OwnSlots ==
    {<<>>,
     << <<"s", SlotDefinition("s")>> >>,
     << <<"s", [SlotDefinition("s") EXCEPT !.minimum_value = Some(5)]>> >>,
     << <<"s", [SlotDefinition("s") EXCEPT !.maximum_value = Some(5)]>> >>}

\* The class B declares the slot as an attribute, or no class does.
AttributeChoices ==
    {NoEntries(BoundsClasses),
     [NoEntries(BoundsClasses) EXCEPT
        !["B"] = << <<"s", [SlotDefinition("s") EXCEPT !.minimum_value = Some(7),
                                                        !.maximum_value = Some(9)]>> >>]}

InitBounds ==
    /\ \E h \in Hierarchies(BoundsClasses, TRUE),
          usage \in [Range(BoundsClasses) -> BoundUsages],
          own \in OwnSlots, attrs \in AttributeChoices :
          /\ Links(h) <= MaxParentLinks
          /\ Cardinality({c \in Range(BoundsClasses) : usage[c] # <<>>}) <= MaxUsages
          /\ schema = [SchemaOf(h, usage, attrs, SlotDefinition("s")) EXCEPT !.slots = own]
    /\ induced_cache = {}
    /\ induced = [op |-> "idle"]
    /\ schema_map = InitialSchemaMap
    /\ modifications = 0
    /\ cache = NoTables
    /\ last = Called("init", "SchemaView", "()", NoResult)
    /\ ic = IdleClosure
    /\ ld = IdleLoad
    /\ dp = IdleDump

SpecBounds == InitBounds /\ [][NextInduce]_vars

SetMax(S) == CHOOSE x \in S : \A y \in S : y <= x
SetMin(S) == CHOOSE x \in S : \A y \in S : x <= y

\* The values that contribute to a bound of the last call: the value of the
\* slot (or attribute) induced_slot started from, and the slot_usage value
\* of every class in the closure of the context class.
Contributing(metaslot_name) ==
    LET cn == induced.class_name
        closure == IF cn = None THEN {} ELSE AncestorSet(schema, {cn})
        own == StartingSlot(schema, "s", cn).slot[metaslot_name]
        all == {own} \cup {UsageOf(c, metaslot_name) : c \in closure}
    IN  {v[1] : v \in all \ {NoValue}}

\* C5: the induced minimum_value is the largest of the contributing
\* minimum values and the induced maximum_value the smallest of the
\* contributing maximum values (None when nothing contributes).
C5_BoundsMerged ==
    (induced.op = "induced_slot" /\ induced.slot_name = "s" /\ ~induced.raised) =>
        /\ induced.result.minimum_value =
              IF Contributing("minimum_value") = {} THEN NoValue
              ELSE Some(SetMax(Contributing("minimum_value")))
        /\ induced.result.maximum_value =
              IF Contributing("maximum_value") = {} THEN NoValue
              ELSE Some(SetMin(Contributing("maximum_value")))

\* C5 witness: the slot has minimum 5, the context class says 0 and its
\* is_a parent says 16; the induced minimum is 16.
C5_Witness ==
    /\ InducedFor("s")
    /\ get_class(schema, "C").is_a = "B"
    /\ DictHas(schema.slots, "s")
    /\ DictGet(schema.slots, "s").minimum_value = Some(5)
    /\ UsageOf("C", "minimum_value") = Some(0)
    /\ UsageOf("B", "minimum_value") = Some(16)
    /\ induced.result.minimum_value = Some(16)

(***************************************************************************)
(* PydanticRDFLoader: an RDF graph is turned into the keyword arguments of *)
(* a pydantic model class.  Strings are compared and scanned by code       *)
(* point, URIs are sequences of path segments (every namespace ends at a   *)
(* segment boundary), a CURIE is [prefix, local].  Objects of triples are  *)
(* literals; nested resources are outside this model.                      *)
(***************************************************************************)

\* [ord(char) for char in s], for the strings the graphs are written with.
\* "Dzhon" stands for the Cyrillic spelling of the name.
Chars(s) ==
    CASE s = "John"  -> <<74, 111, 104, 110>>
      [] s = "Juan"  -> <<74, 117, 97, 110>>
      [] s = "Hans"  -> <<72, 97, 110, 115>>
      [] s = "Dzhon" -> <<1044, 1078, 1086, 1085>>
      [] s = "de"    -> <<100, 101>>
      [] s = "en"    -> <<101, 110>>
      [] s = "es"    -> <<101, 115>>
      [] s = "uk"    -> <<117, 107>>
      [] OTHER       -> <<>>

\* Python's a < b on str: the first differing code point decides, a proper
\* prefix is smaller.
StrLess(a, b) ==
    LET x == Chars(a)
        y == Chars(b)
        differs == {i \in 1..Len(x) : i > Len(y) \/ x[i] # y[i]}
        first == CHOOSE i \in differs : \A j \in differs : i <= j
    IN  IF differs = {} THEN Len(x) < Len(y)
        ELSE first <= Len(y) /\ x[first] < y[first]

\* int(obj) for the lexical forms of xsd:integer literals, and back.
IntOf(lex) == CASE lex = "7" -> 7 [] lex = "07" -> 7 [] lex = "30" -> 30 [] OTHER -> 0

\* ---- values of model_data and of instances ----
Value(kind, text, lang, num, items) ==
    [kind |-> kind, text |-> text, lang |-> lang, num |-> num, items |-> items]

PyStr(t) == Value("str", t, "", 0, <<>>)
PyTuple(t, l) == Value("tuple", t, l, 0, <<>>)
PyInt(n) == Value("int", "", "", n, <<>>)
PyList(items) == Value("list", "", "", 0, items)
PyNone == Value("None", "", "", 0, <<>>)

\* ---- annotations: typing.get_origin / typing.get_args ----
Annotation(name, origin, args) == [name |-> name, origin |-> origin, args |-> args]

Plain(name) == Annotation(name, "", <<>>)
ListOf(t) == Annotation("list", "list", <<t>>)
Optional(t) == Annotation("Optional", "Union", <<t, Plain("NoneType")>>)

\* prefixes, as load() builds them from the module's linkml_meta: the
\* generated metadata lists them in sorted order.
prefixes ==
    << <<"P", <<"example.org", "P">> >>,
       <<"linkml", <<"w3id.org", "linkml">> >>,
       <<"personinfo", <<"w3id.org", "linkml", "examples", "personinfo">> >>,
       <<"schema", <<"schema.org">> >> >>

Curie(prefix, local) == [prefix |-> prefix, local |-> local]

\* target_class.model_fields: name -> annotation, slot_uri, required.
model_fields ==
    << <<"id",           [annotation |-> Plain("str"), slot_uri |-> Curie("", <<"@id">>),
                          required |-> TRUE]>>,
       <<"name",         [annotation |-> Optional(Plain("str")),
                          slot_uri |-> Curie("schema", <<"name">>), required |-> FALSE]>>,
       <<"age_in_years", [annotation |-> Optional(Plain("int")),
                          slot_uri |-> Curie("personinfo", <<"age_in_years">>),
                          required |-> FALSE]>>,
       <<"aliases",      [annotation |-> Optional(ListOf(Plain("str"))),
                          slot_uri |-> Curie("personinfo", <<"aliases">>),
                          required |-> FALSE]>>,
       <<"keywords",     [annotation |-> ListOf(Plain("str")),
                          slot_uri |-> Curie("schema", <<"keywords">>),
                          required |-> FALSE]>> >>

StartsWith(uri, base) ==
    Len(base) <= Len(uri) /\ SubSeq(uri, 1, Len(base)) = base

\* _expand_curie: a full URI is returned as it is, a CURIE with a known
\* prefix is expanded, anything else is returned unchanged.
_expand_curie(curie, pf) ==
    IF curie.prefix = "" THEN curie.local
    ELSE IF DictHas(pf, curie.prefix) THEN DictGet(pf, curie.prefix) \o curie.local
    ELSE <<curie.prefix>> \o curie.local

\* _uri_to_curie: the FIRST prefix of the dict whose namespace starts the URI.
_uri_to_curie(uri, pf) ==
    LET hits == {i \in 1..Len(pf) : StartsWith(uri, pf[i][2])}
        i == CHOOSE k \in hits : \A j \in hits : k <= j
    IN  IF hits = {} THEN Curie("", uri)
        ELSE Curie(pf[i][1], SubSeq(uri, Len(pf[i][2]) + 1, Len(uri)))

\* The str "prefix:local" (or a bare URI when prefix is ""): text holds the
\* prefix and items the segments after it.
PyCurie(c) == Value("str", c.prefix, "", 0, c.local)

\* ---- rdflib nodes ----
XSD_integer == <<"www.w3.org", "2001", "XMLSchema#integer">>
RDF_type == <<"www.w3.org", "1999", "02", "22-rdf-syntax-ns#type">>
BNode == <<"_:b0">>

Literal(lex, language, datatype) ==
    [node |-> "Literal", lex |-> lex, language |-> language, datatype |-> datatype,
     uri |-> <<>>]

URIRef(uri) ==
    [node |-> "URIRef", lex |-> "", language |-> "", datatype |-> <<>>, uri |-> uri]

\* _find_field_for_predicate: the first field whose expanded slot_uri is the
\* predicate.  The fields of the class carry no exact_mappings and no
\* from_schema, so the two later tests of the loop body never match.
_find_field_for_predicate(predicate, pf) ==
    LET hits == {i \in 1..Len(model_fields) :
                    _expand_curie(model_fields[i][2].slot_uri, pf) = predicate}
    IN  IF hits = {} THEN None
        ELSE model_fields[CHOOSE i \in hits : \A j \in hits : i <= j][1]

\* _convert_object_value, for a Literal: xsd:integer gives an int, a
\* language-tagged literal the pair (text, language), anything else str(obj).
_convert_object_value(obj) ==
    IF obj.datatype = XSD_integer THEN PyInt(IntOf(obj.lex))
    ELSE IF obj.language # "" THEN PyTuple(obj.lex, obj.language)
    ELSE PyStr(obj.lex)

\* `if field_name in model_data: ... append ... else: model_data[field_name] = field_value`
Accumulate(model_data, field_name, field_value) ==
    IF DictHas(model_data, field_name)
    THEN LET old == DictGet(model_data, field_name)
             lst == IF old.kind = "list" THEN old.items ELSE <<old>>
         IN  DictSet(model_data, field_name, PyList(Append(lst, field_value)))
    ELSE DictSet(model_data, field_name, field_value)

\* _select_preferred_language: the first all-ASCII value, else the first.
_select_preferred_language(values) ==
    LET ascii == {i \in 1..Len(values) :
                     \A k \in 1..Len(Chars(values[i].text)) : Chars(values[i].text)[k] < 128}
    IN  IF Len(values) = 0 THEN PyStr("")
        ELSE IF Len(values) = 1 THEN values[1]
        ELSE IF ascii # {} THEN values[CHOOSE i \in ascii : \A j \in ascii : i <= j]
        ELSE values[1]

\* list.sort(key=lambda x: x[1]): stable insertion by language code.
RECURSIVE SortByLang(_)
SortByLang(tagged) ==
    IF tagged = <<>> THEN <<>>
    ELSE LET rest == SortByLang(SubSeq(tagged, 1, Len(tagged) - 1))
             x == tagged[Len(tagged)]
             after == {i \in 1..Len(rest) : StrLess(x.lang, rest[i].lang)}
             at == IF after = {} THEN Len(rest) + 1
                   ELSE CHOOSE i \in after : \A j \in after : i <= j
         IN  SubSeq(rest, 1, at - 1) \o <<x>> \o SubSeq(rest, at, Len(rest))

\* The first element of seq that satisfies the test of hits, <<>> when none does.
FirstOf(seq, hits) ==
    IF hits = {} THEN <<>> ELSE <<seq[CHOOSE i \in hits : \A j \in hits : i <= j]>>

\* The first tagged value whose language is the earliest preferred language
\* that some tagged value carries; <<>> when no preferred language occurs.
RECURSIVE FirstPreferred(_, _)
FirstPreferred(tagged, preferred_languages) ==
    IF preferred_languages = <<>> THEN <<>>
    ELSE LET hit == FirstOf(tagged, {i \in 1..Len(tagged) :
                                        tagged[i].lang = Head(preferred_languages)})
         IN  IF hit # <<>> THEN hit ELSE FirstPreferred(tagged, Tail(preferred_languages))

\* The two loops swapped: the first tagged value whose language is preferred
\* at all.
_select_preferred_language_from_tagged_literals_by_value(values, preferred_languages) ==
    LET tagged == SelectSeq(values, LAMBDA v : v.kind = "tuple")
        non_tagged == SelectSeq(values, LAMBDA v : v.kind # "tuple")
        preferred == FirstOf(tagged, {i \in 1..Len(tagged) :
                        \E k \in 1..Len(preferred_languages) :
                            tagged[i].lang = preferred_languages[k]})
        english == FirstOf(tagged, {i \in 1..Len(tagged) : tagged[i].lang = "en"})
    IN  IF tagged # <<>>
        THEN IF preferred # <<>> THEN PyStr(preferred[1].text)
             ELSE IF english # <<>> THEN PyStr(english[1].text)
             ELSE PyStr(SortByLang(tagged)[1].text)
        ELSE _select_preferred_language(non_tagged)

\* _select_preferred_language_from_tagged_literals
_select_preferred_language_from_tagged_literals(values, preferred_languages) ==
    LET tagged == SelectSeq(values, LAMBDA v : v.kind = "tuple")
        non_tagged == SelectSeq(values, LAMBDA v : v.kind # "tuple")
        preferred == FirstPreferred(tagged, preferred_languages)
        english == FirstOf(tagged, {i \in 1..Len(tagged) : tagged[i].lang = "en"})
    IN  IF tagged # <<>>
        THEN IF preferred # <<>> THEN PyStr(preferred[1].text)
             ELSE IF english # <<>> THEN PyStr(english[1].text)
             ELSE PyStr(SortByLang(tagged)[1].text)
        ELSE _select_preferred_language(non_tagged)

\* self.preferred_languages = preferred_languages or ['en']
PreferredOrDefault(preferred_languages) ==
    IF preferred_languages = <<>> THEN <<"en">> ELSE preferred_languages

FieldInfo(field_name) == DictGet(model_fields, field_name)

\* _handle_multilingual_strings: a str or Optional[str] field holding a list
\* of more than one value is collapsed to the selected value.
_handle_multilingual_strings(model_data, preferred_languages) ==
    [i \in 1..Len(model_data) |->
        LET field_type == FieldInfo(model_data[i][1]).annotation
            value == model_data[i][2]
            non_none_args == SelectSeq(field_type.args, LAMBDA a : a # Plain("NoneType"))
            is_single_string_field ==
                \/ field_type = Plain("str")
                \/ /\ field_type.origin = "Union"
                   /\ non_none_args = <<Plain("str")>>
        IN  IF is_single_string_field /\ value.kind = "list" /\ Len(value.items) > 1
            THEN <<model_data[i][1],
                   _select_preferred_language_from_tagged_literals(value.items,
                                                                   preferred_languages)>>
            ELSE model_data[i]]

\* Only the `elif origin is list` branch: Optional[list[...]] is not seen.
_wrap_list_fields_direct_only(model_data) ==
    [i \in 1..Len(model_data) |->
        LET field_type == FieldInfo(model_data[i][1]).annotation
            value == model_data[i][2]
        IN  IF value.kind = "list" THEN model_data[i]
            ELSE IF field_type.origin = "list"
            THEN <<model_data[i][1], PyList(<<value>>)>>
            ELSE model_data[i]]

\* _wrap_list_fields: a value that is not a list is wrapped when the field's
\* annotation is list[...] or a Union with a list[...] member.
_wrap_list_fields(model_data) ==
    [i \in 1..Len(model_data) |->
        LET field_type == FieldInfo(model_data[i][1]).annotation
            value == model_data[i][2]
        IN  IF value.kind = "list" THEN model_data[i]
            ELSE IF \/ /\ field_type.origin = "Union"
                       /\ \E k \in 1..Len(field_type.args) :
                              field_type.args[k].origin = "list"
                    \/ field_type.origin = "list"
            THEN <<model_data[i][1], PyList(<<value>>)>>
            ELSE model_data[i]]

\* pydantic's validation of one value against an annotation (lax mode: a
\* str is a str, an int is an int, a list is checked item by item, None is
\* accepted where the Union has NoneType).
RECURSIVE Conforms(_, _)
Conforms(t, v) ==
    CASE t.origin = "Union" -> \E k \in 1..Len(t.args) : Conforms(t.args[k], v)
      [] t.origin = "list"  -> /\ v.kind = "list"
                               /\ \A k \in 1..Len(v.items) : Conforms(t.args[1], v.items[k])
      [] OTHER              -> \/ t.name = "NoneType" /\ v.kind = "None"
                               \/ t.name = "str" /\ v.kind = "str"
                               \/ t.name = "int" /\ v.kind = "int"

\* target_class(**model_data): the instance, or a ValidationError naming the
\* fields that are missing or hold a value their annotation rejects.
Construct(model_data) ==
    LET names == {model_fields[i][1] : i \in 1..Len(model_fields)}
        errors == {f \in names :
                     IF DictHas(model_data, f)
                     THEN ~Conforms(FieldInfo(f).annotation, DictGet(model_data, f))
                     ELSE FieldInfo(f).required}
    IN  [raised |-> errors # {},
         errors |-> errors,
         instance |-> [f \in names |-> IF errors = {} /\ DictHas(model_data, f)
                                       THEN DictGet(model_data, f) ELSE PyNone]]

\* ---- the dump direction (PydanticRDFDumper) ----
FieldNames == {model_fields[i][1] : i \in 1..Len(model_fields)}

\* str(n) for the ints of the instances.
LexOf(n) == CASE n = 7 -> "7" [] n = 30 -> "30" [] OTHER -> "0"

\* A str becomes a plain literal, an int an xsd:integer literal.
LiteralOf(v) ==
    IF v.kind = "int" THEN Literal(LexOf(v.num), "", XSD_integer)
    ELSE Literal(v.text, "", <<>>)

\* The values of a field as a list: a list as it is, None as nothing, a
\* scalar as one value.
NormalizedValues(v) ==
    IF v.kind = "list" THEN {v.items[k] : k \in 1..Len(v.items)}
    ELSE IF v.kind = "None" THEN {}
    ELSE {v}

\* The graph of an instance: the subject is the expanded identifier, every
\* value of every other field is one triple, and rdf:type names the class.
\* An rdflib Graph is a set of triples.
as_rdf_graph(instance) ==
    [subject |-> _expand_curie(Curie(instance.id.text, instance.id.items), prefixes),
     triples |->
        {[p |-> RDF_type, o |-> URIRef(_expand_curie(Curie("schema", <<"Person">>), prefixes))]}
        \cup UNION {{[p |-> _expand_curie(FieldInfo(f).slot_uri, prefixes), o |-> LiteralOf(v)] :
                        v \in NormalizedValues(instance[f])} : f \in FieldNames \ {"id"}}]

\* ---- the load, step by step ----
NoInstance == [f \in FieldNames |-> PyNone]
NoLoadResult == [raised |-> FALSE, errors |-> {}, instance |-> NoInstance]

\* dumps(instance), the text that loads() is then given.
dumps ==
    /\ ld.pc = "dumps"
    /\ ld' = [ld EXCEPT !.pc = "load", !.graph = as_rdf_graph(ld.instance)]

\* load() up to the loop of _convert_subject_to_model: the only subject is
\* the root, and its URI gives the id unless it is a blank node.
load ==
    /\ ld.pc = "load"
    /\ ld' = [ld EXCEPT
                !.pc = "predicate_objects",
                !.todo = ld.graph.triples,
                !.model_data =
                    IF ld.graph.subject = BNode THEN <<>>
                    ELSE << <<"id", PyCurie(_uri_to_curie(ld.graph.subject, prefixes))>> >>]

\* One iteration of `for predicate, obj in graph.predicate_objects(subject)`;
\* the graph yields its triples in no particular order.
convert_triple ==
    /\ ld.pc = "predicate_objects"
    /\ \E t \in ld.todo :
          LET field_name == _find_field_for_predicate(t.p, prefixes)
          IN  ld' = [ld EXCEPT
                        !.todo = ld.todo \ {t},
                        !.model_data =
                            IF t.p = RDF_type \/ field_name = None THEN ld.model_data
                            ELSE Accumulate(ld.model_data, field_name,
                                            _convert_object_value(t.o))]

handle_multilingual_strings ==
    /\ ld.pc = "predicate_objects"
    /\ ld.todo = {}
    /\ ld' = [ld EXCEPT
                !.pc = "_wrap_list_fields",
                !.model_data = _handle_multilingual_strings(
                                   ld.model_data, PreferredOrDefault(ld.preferred_languages))]

wrap_list_fields ==
    /\ ld.pc = "_wrap_list_fields"
    /\ ld' = [ld EXCEPT !.pc = "construct", !.model_data = _wrap_list_fields(ld.model_data)]

construct ==
    /\ ld.pc = "construct"
    /\ ld' = [ld EXCEPT !.pc = "done", !.result = Construct(ld.model_data)]

NextLoad ==
    (dumps \/ load \/ convert_triple \/ handle_multilingual_strings
        \/ wrap_list_fields \/ construct)
        /\ UNCHANGED <<viewVars, ic, induceVars, dp>>

\* ---- what is loaded ----
MaxTriples == 3
MaxListLen == 2

PreferredLanguageLists == {<<>>, <<"uk">>, <<"es", "uk">>, <<"de", "en">>}

Predicate(field_name) == _expand_curie(FieldInfo(field_name).slot_uri, prefixes)

\* The triples a hand-written graph is made of: names plain and tagged,
\* one alias, keywords, an age, a predicate no field maps to, and rdf:type.
CandidateTriples ==
    {[p |-> Predicate("name"), o |-> Literal(t, "", <<>>)] : t \in {"John", "Dzhon"}}
    \cup {[p |-> Predicate("name"), o |-> Literal(tl[1], tl[2], <<>>)] :
             tl \in {<<"John", "en">>, <<"Dzhon", "uk">>, <<"Juan", "es">>, <<"Hans", "de">>}}
    \cup {[p |-> Predicate("aliases"), o |-> Literal("Juan", "", <<>>)]}
    \cup {[p |-> Predicate("keywords"), o |-> Literal(t, "", <<>>)] : t \in {"Hans", "Juan"}}
    \cup {[p |-> Predicate("age_in_years"), o |-> Literal("07", "", XSD_integer)]}
    \cup {[p |-> <<"schema.org", "url">>, o |-> Literal("John", "", <<>>)]}
    \cup {[p |-> RDF_type,
           o |-> URIRef(_expand_curie(Curie("schema", <<"Person">>), prefixes))]}

Graphs ==
    {[subject |-> subj, triples |-> ts] :
        subj \in {_expand_curie(Curie("P", <<"001">>), prefixes), BNode},
        ts \in {x \in SUBSET CandidateTriples : Cardinality(x) <= MaxTriples}}

\* Lists of at most MaxListLen strings.
StrLists(texts) ==
    UNION {{PyList([k \in 1..n |-> PyStr(f[k])]) : f \in [1..n -> texts]} : n \in 0..MaxListLen}

Instances ==
    {[id |-> PyCurie(Curie(pfx, <<"001">>)), name |-> name, age_in_years |-> age,
      aliases |-> aliases, keywords |-> keywords] :
        pfx \in {"P", "personinfo"},
        name \in {PyNone, PyStr("John"), PyStr("Dzhon")},
        age \in {PyNone, PyInt(30)},
        aliases \in {PyNone} \cup StrLists({"Juan", "Hans"}),
        keywords \in StrLists({"Hans"}) \ {PyList(<<>>)}}

InitLoad ==
    /\ \/ \E inst \in Instances :
             ld = [pc |-> "dumps", dumped |-> TRUE, preferred_languages |-> <<>>,
                   instance |-> inst,
                   graph |-> [subject |-> BNode, triples |-> {}],
                   todo |-> {}, model_data |-> <<>>, result |-> NoLoadResult]
       \/ \E g \in Graphs, pl \in PreferredLanguageLists :
             ld = [pc |-> "load", dumped |-> FALSE, preferred_languages |-> pl,
                   instance |-> NoInstance, graph |-> g,
                   todo |-> {}, model_data |-> <<>>, result |-> NoLoadResult]
    /\ schema_map = InitialSchemaMap
    /\ modifications = 0
    /\ cache = NoTables
    /\ last = Called("init", "SchemaView", "()", NoResult)
    /\ ic = IdleClosure
    /\ IdleInduce
    /\ dp = IdleDump

SpecLoad == InitLoad /\ [][NextLoad]_vars

\* ---- what a load is expected to give ----

\* The values the graph holds for a field, as the loader converts them.
Received(field_name) ==
    {_convert_object_value(t.o) :
        t \in {x \in ld.graph.triples :
                  x.p # RDF_type /\ _find_field_for_predicate(x.p, prefixes) = field_name}}

\* Fields declared list[...] or Optional[list[...]].
ListFields ==
    {f \in FieldNames :
        LET a == FieldInfo(f).annotation
        IN  a.origin = "list"
            \/ (a.origin = "Union" /\ \E k \in 1..Len(a.args) : a.args[k].origin = "list")}

\* Fields declared str or Optional[str].
SingleStringFields ==
    {f \in FieldNames : FieldInfo(f).annotation \in {Plain("str"), Optional(Plain("str"))}}

\* The language the selection has to take among the tags: the earliest
\* preferred language that occurs, else 'en', else the smallest code.
TargetLanguage(langs, preferred_languages) ==
    LET occurring == {k \in 1..Len(preferred_languages) : preferred_languages[k] \in langs}
    IN  IF occurring # {}
        THEN preferred_languages[CHOOSE k \in occurring : \A j \in occurring : k <= j]
        ELSE IF "en" \in langs THEN "en"
        ELSE CHOOSE l \in langs : \A m \in langs \ {l} : StrLess(l, m)

\* C7: once the multilingual collapse has run, a single-valued string field
\* that received several values, at least one of them language-tagged, holds
\* the text of a value tagged with the earliest preferred language occurring
\* among the tags, else of the value tagged 'en', else of the value with the
\* lexicographically smallest language code; an untagged value is never taken.
C7_MultilingualSelection ==
    ld.pc \in {"_wrap_list_fields", "construct", "done"} =>
        \A f \in SingleStringFields :
            LET tagged == {v \in Received(f) : v.kind = "tuple"}
                target == TargetLanguage({v.lang : v \in tagged},
                                         PreferredOrDefault(ld.preferred_languages))
            IN  (Cardinality(Received(f)) > 1 /\ tagged # {}) =>
                    \E v \in tagged :
                        /\ v.lang = target
                        /\ DictGet(ld.model_data, f) = PyStr(v.text)

\* An untagged name next to names tagged uk and es, none of them preferred
\* and none English: the es name is taken.
C7_Witness ==
    /\ ld.pc = "done"
    /\ Received("name") = {PyStr("John"), PyTuple("Dzhon", "uk"), PyTuple("Juan", "es")}
    /\ ld.preferred_languages = <<"de", "en">>
    /\ DictGet(ld.model_data, "name") = PyStr("Juan")

\* C8: a load in which a single-valued string field received several values,
\* none of them language-tagged, ends in a validation error for that field.
C8_UntaggedAmbiguityRejected ==
    ld.pc = "done" =>
        \A f \in SingleStringFields :
            (Cardinality(Received(f)) > 1 /\ \A v \in Received(f) : v.kind # "tuple") =>
                ld.result.raised /\ f \in ld.result.errors

\* C9: after _wrap_list_fields, a field declared as a list that received a
\* value holds a list, a one-element list when it received exactly one value;
\* a field not declared as a list that received at most one value holds no list.
C9_ListShapeRepair ==
    ld.pc \in {"construct", "done"} =>
        \A f \in FieldNames :
            /\ (f \in ListFields /\ Received(f) # {}) =>
                   /\ DictHas(ld.model_data, f)
                   /\ DictGet(ld.model_data, f).kind = "list"
            /\ (f \in ListFields /\ Cardinality(Received(f)) = 1) =>
                   \E v \in Received(f) : DictGet(ld.model_data, f) = PyList(<<v>>)
            /\ (f \notin ListFields /\ DictHas(ld.model_data, f)
                    /\ Cardinality(Received(f)) <= 1) =>
                   DictGet(ld.model_data, f).kind # "list"

\* One alias for the Optional[list[str]] field and one name for the
\* Optional[str] field: the alias is wrapped, the name is not.
C9_Witness ==
    /\ ld.pc = "done"
    /\ Received("aliases") = {PyStr("Juan")}
    /\ DictGet(ld.model_data, "aliases") = PyList(<<PyStr("Juan")>>)
    /\ Cardinality(Received("name")) = 1
    /\ DictGet(ld.model_data, "name").kind # "list"

\* C6: loading the graph an instance was dumped to gives an instance with the
\* same identifier, the same scalar values and, for every multivalued field,
\* the same shape, the same number of values and the same set of values.
C6_RoundTrip ==
    (ld.pc = "done" /\ ld.dumped) =>
        /\ ~ld.result.raised
        /\ ld.result.instance.id = ld.instance.id
        /\ \A f \in FieldNames \ ListFields : ld.result.instance[f] = ld.instance[f]
        /\ \A f \in ListFields :
              LET before == ld.instance[f]
                  after == ld.result.instance[f]
              IN  /\ after.kind = before.kind
                  /\ Len(after.items) = Len(before.items)
                  /\ Range(after.items) = Range(before.items)

(***************************************************************************)
(* SchemaView.ordered: all_classes(ordered_by=...).  A class definition    *)
(* carries its rank here (NoValue when it declares none).                  *)
(***************************************************************************)
RankedClassDef(n, isa, rank) ==
    [name |-> n, ver |-> 1, is_a |-> isa, mixins |-> <<>>, attributes |-> <<>>,
     rank |-> rank]

\* {el.name: el for el in elements}
RECURSIVE DictOf(_)
DictOf(elements) ==
    IF elements = <<>> THEN <<>>
    ELSE DictSet(DictOf(SubSeq(elements, 1, Len(elements) - 1)),
                 elements[Len(elements)].name, elements[Len(elements)])

\* sorted(elements.values(), key=lambda el: el.rank or float("inf")): the
\* key of an element is its rank unless the rank is None or 0, then it is
\* infinity; the sort is stable.
RECURSIVE _order_rank_sorted(_)
_order_rank_sorted(elements) ==
    IF elements = <<>> THEN <<>>
    ELSE LET rest == _order_rank_sorted(SubSeq(elements, 1, Len(elements) - 1))
             x == elements[Len(elements)]
             inf(el) == el.rank = NoValue \/ el.rank[1] = 0
             less(a, b) == ~inf(a) /\ (inf(b) \/ a.rank[1] < b.rank[1])
             after == {i \in 1..Len(rest) : less(x, rest[i])}
             at == IF after = {} THEN Len(rest) + 1
                   ELSE CHOOSE i \in after : \A j \in after : i <= j
         IN  SubSeq(rest, 1, at - 1) \o <<x>> \o SubSeq(rest, at, Len(rest))

_order_rank(elements) ==
    [raised |-> FALSE, result |-> DictOf(_order_rank_sorted(DictValues(elements)))]

\* `while len(clist) > 0`: the first candidate whose is_a is None or already
\* placed is moved to slist; OrderingError when no candidate can be added.
RECURSIVE _order_inheritance_while(_, _)
_order_inheritance_while(clist, slist) ==
    IF clist = <<>> THEN [raised |-> FALSE, slist |-> slist]
    ELSE LET can_add == {i \in 1..Len(clist) :
                            \/ clist[i].is_a = None
                            \/ \E k \in 1..Len(slist) : slist[k].name = clist[i].is_a}
             i == CHOOSE k \in can_add : \A j \in can_add : k <= j
         IN  IF can_add = {} THEN [raised |-> TRUE, slist |-> slist]
             ELSE _order_inheritance_while(
                      SubSeq(clist, 1, i - 1) \o SubSeq(clist, i + 1, Len(clist)),
                      Append(slist, clist[i]))

\* The elements in their order of declaration.
_order_inheritance_as_declared(elements) ==
    [raised |-> FALSE, result |-> elements]

\* _order_inheritance returning what was placed when nothing more can be.
_order_inheritance_never_raises(elements) ==
    LET r == _order_inheritance_while(DictValues(elements), <<>>)
    IN  [raised |-> FALSE, result |-> DictOf(r.slist)]

_order_inheritance(elements) ==
    LET r == _order_inheritance_while(DictValues(elements), <<>>)
    IN  [raised |-> r.raised, result |-> IF r.raised THEN <<>> ELSE DictOf(r.slist)]

\* ordered(elements, ordered_by)
ordered(elements, ordered_by) ==
    CASE ordered_by = "rank" -> _order_rank(elements)
      [] ordered_by = "inheritance" -> _order_inheritance(elements)
      [] OTHER -> [raised |-> FALSE, result |-> elements]

\* all_classes(ordered_by=...): `classes = copy(self._get_dict(CLASSES, imports));
\* return self.ordered(classes, ordered_by=ordered_by)`, through lru_cache.  A
\* call that raises leaves no entry.
all_classes_ordered_by(sm, c, mods, ordered_by) ==
    LET hit == Memo(c, mods, "all_classes", ordered_by)
        g == _get_dict(sm, c, mods, CLASSES, TRUE)
        r == ordered(g.result, ordered_by)
    IN  IF hit # {}
        THEN [cache |-> c, raised |-> FALSE, result |-> (CHOOSE e \in hit : TRUE).result]
        ELSE [cache |-> IF r.raised THEN g.cache
                        ELSE Memoised(g.cache, mods, "all_classes", ordered_by, r.result),
              raised |-> r.raised, result |-> r.result]

query_ordered(ordered_by) ==
    LET r == all_classes_ordered_by(schema_map, cache, modifications, ordered_by)
    IN  /\ cache' = r.cache
        /\ last' = Called(IF r.raised THEN "raised" ELSE "query", "all_classes",
                          ordered_by, r.result)
        /\ UNCHANGED <<schema_map, modifications>>

query_by_rank == query_ordered("rank")
query_by_inheritance == query_ordered("inheritance")
query_preserve == query_ordered("preserve")

NextOrder ==
    (query_by_rank \/ query_by_inheritance \/ query_preserve)
        /\ UNCHANGED <<ic, induceVars, ld, dp>>

\* ---- the classes that are ordered ----
MaxOrdered == 3
OrderedNames == <<"A", "B", "C", "D">>
Ranks == {NoValue, Some(0), Some(1), Some(2)}

\* The classes in every order of declaration, either with is_a links (a
\* parent may be missing from the schema, or the links may form a cycle) or
\* with ranks.
OrderedClassLists ==
    LET names == {OrderedNames[k] : k \in 1..MaxOrdered}
        orders == {o \in [1..MaxOrdered -> names] :
                      \A i, j \in 1..MaxOrdered : i # j => o[i] # o[j]}
    IN  {[k \in 1..MaxOrdered |-> RankedClassDef(o[k], isa[o[k]], NoValue)] :
            o \in orders, isa \in [names -> names \cup {None, "X"}]}
        \cup {[k \in 1..MaxOrdered |-> RankedClassDef(o[k], None, rk[o[k]])] :
                 o \in orders, rk \in [names -> Ranks]}

InitOrder ==
    /\ \E cl \in OrderedClassLists :
          schema_map = [sn \in {RootName} |->
                          SchemaDef(RootName, <<>>, DictOf(cl), <<>>, <<>>, <<>>, <<>>)]
    /\ modifications = 0
    /\ cache = NoTables
    /\ last = Called("init", "SchemaView", "()", NoResult)
    /\ ic = IdleClosure
    /\ IdleInduce
    /\ ld = IdleLoad
    /\ dp = IdleDump

SpecOrder == InitOrder /\ [][NextOrder]_vars

\* C12: the classes all_classes(ordered_by=inheritance) returns are the
\* classes of the view, each once, and no class stands before its is_a
\* parent or before any of its is_a ancestors.
C12_ParentsFirst ==
    (last.op = "query" /\ last.method = "all_classes" /\ last.args = "inheritance") =>
        LET r == last.result
            classes == schema_map[RootName].classes
            RECURSIVE Ancestors(_)
            Ancestors(S) ==
                LET more == S \cup {DictGet(classes, n).is_a :
                                      n \in {m \in S : DictHas(classes, m)}}
                IN  IF more = S THEN S ELSE Ancestors(more)
        IN  /\ Len(r) = Len(classes)
            /\ Range(r) = Range(classes)
            /\ \A i \in 1..Len(r) :
                  \A a \in Ancestors({r[i][2].is_a}) \ {None} :
                      \E k \in 1..(i - 1) : r[k][1] = a

\* A chain C is_a B is_a A declared child first is returned as A, B, C.
C12_Witness ==
    /\ last.op = "query" /\ last.args = "inheritance"
    /\ DictKeys(schema_map[RootName].classes) = {"A", "B", "C"}
    /\ schema_map[RootName].classes[1] = <<"C", RankedClassDef("C", "B", NoValue)>>
    /\ schema_map[RootName].classes[2] = <<"B", RankedClassDef("B", "A", NoValue)>>
    /\ [k \in 1..3 |-> last.result[k][1]] = <<"A", "B", "C">>

\* C13: in the result of all_classes(ordered_by=rank) the ranks ascend, every
\* element without a rank stands after every element with one, and elements
\* of equal rank, or without rank, keep their order of declaration.
C13_RankOrder ==
    (last.op = "query" /\ last.method = "all_classes" /\ last.args = "rank") =>
        LET r == last.result
            classes == schema_map[RootName].classes
            declared(k) == CHOOSE p \in 1..Len(classes) : classes[p][1] = r[k][1]
        IN  /\ Range(r) = Range(classes)
            /\ \A i, j \in 1..Len(r) :
                  i < j =>
                     LET x == r[i][2].rank
                         y == r[j][2].rank
                     IN  /\ (x # NoValue /\ y # NoValue) => x[1] <= y[1]
                         /\ x = NoValue => y = NoValue
                         /\ x = y => declared(i) < declared(j)

(***************************************************************************)
(* SchemaView.get_class, get_slot, get_subset, get_enum, get_type on the   *)
(* view: a lookup in the dict the all_* query returns.  A result is        *)
(* NoValue for None and Some(definition) otherwise.                        *)
(***************************************************************************)
\* d.get(name, None)
DictGetOrNone(d, name) == IF DictHas(d, name) THEN Some(DictGet(d, name)) ELSE NoValue

\* The lookup with the strict check left out.
StrictOrNone_never_raises(c, found, strict) ==
    [cache |-> c, raised |-> FALSE, result |-> found]

\* `if strict and x is None: raise ValueError(f'No such <kind>: "{name}"')`
StrictOrNone(c, found, strict) ==
    [cache |-> c, raised |-> strict /\ found = NoValue, result |-> found]

\* get_class, get_subset, get_enum, get_type
get_element(method, sm, c, mods, name, imports, strict) ==
    LET args == IF imports THEN "imports=True" ELSE "imports=False"
        all == CASE method = "get_class" -> all_classes(sm, c, mods, args)
                 [] method = "get_subset" -> all_subsets(sm, c, mods, args)
                 [] method = "get_enum" -> all_enums(sm, c, mods, args)
                 [] OTHER -> all_types(sm, c, mods, args)
    IN  StrictOrNone(all.cache, DictGetOrNone(all.result, name), strict)

\* get_slot on the view: the slot of that name, else the attribute of that
\* name of the only class that has one (a stub when several classes do).
get_slot_or_attribute(sm, c, mods, slot_name, imports, attributes, strict) ==
    LET args == IF imports THEN "imports=True" ELSE "imports=False"
        slots == all_plain("all_slots(attributes=False)", SLOTS, sm, c, mods, args)
        slot == DictGetOrNone(slots.result, slot_name)
        classes == all_classes(sm, slots.cache, mods, args)
        owners == AttributeOwners(classes.result, slot_name)
    IN  IF slot # NoValue \/ ~attributes THEN StrictOrNone(slots.cache, slot, strict)
        ELSE IF Len(owners) > 1
        THEN [cache |-> classes.cache, raised |-> FALSE,
              result |-> Some(ElemDef(slot_name, 0))]
        ELSE StrictOrNone(classes.cache,
                          IF owners = <<>> THEN NoValue
                          ELSE Some(DictGet(DictGet(classes.result, owners[1]).attributes,
                                            slot_name)),
                          strict)

\* The names asked for: in the root, in an import only, an attribute, nowhere.
GetNames == {"X", "K", "s", "k", "a", "e", "t", "u", "does_not_exist"}

Got(method, name, imports, strict, r) ==
    /\ \/ r.cache = cache
       \/ Cardinality(cache.elems) < MaxCache
    /\ cache' = r.cache
    /\ last' = [op |-> IF r.raised THEN "raised" ELSE "get", method |-> method,
                args |-> [name |-> name, imports |-> imports, strict |-> strict],
                result |-> r.result]
    /\ UNCHANGED <<schema_map, modifications>>

get_element_call(method) ==
    \E name \in GetNames, imports \in BOOLEAN, strict \in BOOLEAN :
        Got(method, name, imports, strict,
            get_element(method, schema_map, cache, modifications, name, imports, strict))

get_class_call == get_element_call("get_class")
get_subset_call == get_element_call("get_subset")
get_enum_call == get_element_call("get_enum")
get_type_call == get_element_call("get_type")

get_slot_call ==
    \E name \in GetNames, imports \in BOOLEAN, attributes \in BOOLEAN, strict \in BOOLEAN :
        Got(IF attributes THEN "get_slot" ELSE "get_slot(attributes=False)",
            name, imports, strict,
            get_slot_or_attribute(schema_map, cache, modifications, name, imports,
                                  attributes, strict))

NextGet ==
    (\/ get_class_call \/ get_slot_call \/ get_subset_call \/ get_enum_call
     \/ get_type_call
     \/ add_class \/ add_slot \/ add_enum \/ add_type \/ add_subset
     \/ delete_class \/ delete_slot \/ delete_enum \/ delete_type \/ delete_subset)
        /\ UNCHANGED <<ic, induceVars, ld, dp>>

SpecGet == InitView /\ [][NextGet]_vars

\* The dict of one kind of element that a get method looks into.
KindDict(sd, method) ==
    CASE method = "get_class" -> sd.classes
      [] method \in {"get_slot", "get_slot(attributes=False)"} -> sd.slots
      [] method = "get_subset" -> sd.subsets
      [] method = "get_enum" -> sd.enums
      [] OTHER -> sd.types

\* No schema the call looks at declares the name (for get_slot with
\* attributes, no class of those schemas has an attribute of that name).
AbsentFromView(method, name, imports) ==
    \A sn \in (IF imports THEN DOMAIN schema_map ELSE {RootName}) :
        /\ ~DictHas(KindDict(schema_map[sn], method), name)
        /\ method = "get_slot" =>
              \A i \in 1..Len(schema_map[sn].classes) :
                  ~DictHas(schema_map[sn].classes[i][2].attributes, name)

SchemaPrefixes == << <<"ex", "http://example.org/">> >>
namespaces == [entries |-> SchemaPrefixes, base |-> NoValue]

\* namespaces.uri_for(curie): the namespace of the prefix, then the local part.
uri_for(ns, curie) ==
    IF DictHas(ns.entries, curie[1]) THEN <<DictGet(ns.entries, curie[1]), curie[2]>>
    ELSE <<"ValueError", curie[1]>>

\* The loop over prefix_map.items(): "@base" sets the base, all else an entry.
RECURSIVE merge_prefix_map(_, _)
merge_prefix_map(ns, prefix_map) ==
    IF prefix_map = <<>> THEN ns
    ELSE LET k == Head(prefix_map)[1]
             v == Head(prefix_map)[2]
         IN  merge_prefix_map(IF k = "@base" THEN [ns EXCEPT !.base = Some(v)]
                              ELSE [ns EXCEPT !.entries = DictSet(@, k, v)],
                              Tail(prefix_map))

\* `if "_base" in namespaces: namespaces._base = namespaces["_base"]`
alternate_base(ns) ==
    IF DictHas(ns.entries, "_base")
    THEN [ns EXCEPT !.base = Some(DictGet(ns.entries, "_base"))]
    ELSE ns

\* _handle_type for a type whose uri is neither rdfs:Resource nor xsd:string.
_handle_type(ns) ==
    IF DictHas(ns.entries, "xsd") THEN ns
    ELSE [ns EXCEPT !.entries = DictSet(@, "xsd", "http://www.w3.org/2001/XMLSchema#")]

\* The element dumped: a Person with identifier ex:P1 and the integer age 7.
\* Returns the Namespaces object as the call leaves it, and the graph.
RDFLibDumper_as_rdf_graph(ns0, prefix_map) ==
    LET ns1 == alternate_base(merge_prefix_map(ns0, prefix_map))
        ns2 == _handle_type(ns1)
        subject_uri == uri_for(ns1, <<"ex", "P1">>)
    IN  [namespaces |-> ns2,
         graph |-> [bindings |-> {ns1.entries[i] : i \in 1..Len(ns1.entries)},
                    base |-> ns1.base,
                    triples |-> {<<subject_uri, uri_for(ns1, <<"ex", "age">>),
                                   <<"7", uri_for(ns2, <<"xsd", "integer">>)>> >>,
                                 <<subject_uri, <<"rdf", "type">>,
                                   uri_for(ns2, <<"ex", "Person">>)>>}]]

MaxPrefixMap == 2
PrefixMapItems ==
    {<<"@base", "http://base.one/">>, <<"@base", "http://base.two/">>,
     <<"_base", "http://base.three/">>, <<"ex", "http://other.org/">>,
     <<"foaf", "http://xmlns.com/foaf/0.1/">>}
PrefixMaps ==
    {pm \in UNION {[1..n -> PrefixMapItems] : n \in 0..MaxPrefixMap} :
        \A i, j \in 1..Len(pm) : i # j => pm[i][1] # pm[j][1]}

\* dumper.as_rdf_graph(element, schemaview, prefix_map) / dumper.dumps(...)
RDFLibDumper_dumps ==
    \E prefix_map \in PrefixMaps :
        LET r == RDFLibDumper_as_rdf_graph(dp.namespaces, prefix_map)
        IN  dp' = [pc |-> "dumped", namespaces |-> r.namespaces,
                   prefix_map |-> prefix_map, graph |-> r.graph]

NextDump == RDFLibDumper_dumps /\ UNCHANGED <<viewVars, ic, induceVars, ld>>

InitDump ==
    /\ dp = [pc |-> "init", namespaces |-> namespaces, prefix_map |-> <<>>,
             graph |-> [bindings |-> {}, base |-> NoValue, triples |-> {}]]
    /\ schema_map = InitialSchemaMap
    /\ modifications = 0
    /\ cache = NoTables
    /\ last = Called("init", "SchemaView", "()", NoResult)
    /\ ic = IdleClosure
    /\ IdleInduce
    /\ ld = IdleLoad

SpecDump == InitDump /\ [][NextDump]_vars

\* The prefix table of the view as the schema gives it, with the xsd entry
\* a typed literal needs: what a dump may leave behind at most.
WithoutPrefixMap(ns) == ns.base = NoValue /\ \A i \in 1..Len(ns.entries) :
                            ns.entries[i] \in {SchemaPrefixes[1],
                                               <<"xsd", "http://www.w3.org/2001/XMLSchema#">>}

\* C15: a dump leaves the view as it was, its namespace and prefix table
\* included, and the graph of a dump is that of the element, the view and
\* the prefix_map of this call: the prefix_map of an earlier dump ('@base'
\* and '_base' among them) has no part in it.
C15_DumpLeavesView ==
    dp.pc = "dumped" =>
        /\ WithoutPrefixMap(dp.namespaces)
        /\ dp.graph = RDFLibDumper_as_rdf_graph(namespaces, dp.prefix_map).graph

(***************************************************************************)
(* PydanticRDFLoader._find_root_subject.  Here a graph is the sequence of  *)
(* its triples in the order the store yields them, each with its subject,  *)
(* so that "the first subject" has a meaning.                              *)
(***************************************************************************)
BNodes == {BNode, <<"_:b1">>}

\* graph.subjects(predicate, object), in store order; graph.subjects() is
\* the call with the pattern Anything.
Anything == [any |-> TRUE]
PredicateObject(p, o) == [any |-> FALSE, p |-> p, o |-> o]
subjects(graph, pattern) ==
    LET Matches(t) == pattern.any \/ (t.p = pattern.p /\ t.o = pattern.o)
    IN  [k \in 1..Len(graph) |-> IF Matches(graph[k]) THEN Some(graph[k].s) ELSE NoValue]

\* `for subject in <subjects>: [if keep:] return subject`
FirstSubject(yielded, blank_too) ==
    LET hits == {k \in 1..Len(yielded) :
                    yielded[k] # NoValue /\ (blank_too \/ yielded[k][1] \notin BNodes)}
    IN  IF hits = {} THEN NoValue ELSE yielded[CHOOSE k \in hits : \A j \in hits : k <= j]

\* The lookup that never asks for the type.
_find_root_subject_untyped(graph, class_uri, pf) ==
    LET any == subjects(graph, Anything)
    IN  IF FirstSubject(any, FALSE) # NoValue
        THEN [raised |-> FALSE, subject |-> FirstSubject(any, FALSE)]
        ELSE [raised |-> FirstSubject(any, TRUE) = NoValue, subject |-> FirstSubject(any, TRUE)]

\* class_uri is NoValue for a class without one.
_find_root_subject(graph, class_uri, pf) ==
    LET typed == IF class_uri = NoValue THEN NoValue
                 ELSE FirstSubject(subjects(graph, PredicateObject(RDF_type,
                                            URIRef(_expand_curie(class_uri[1], pf)))), TRUE)
        any == subjects(graph, Anything)
    IN  IF typed # NoValue THEN [raised |-> FALSE, subject |-> typed]
        ELSE IF FirstSubject(any, FALSE) # NoValue
        THEN [raised |-> FALSE, subject |-> FirstSubject(any, FALSE)]
        ELSE [raised |-> FirstSubject(any, TRUE) = NoValue, subject |-> FirstSubject(any, TRUE)]

\* load(graph, target_class) as far as the call of _convert_subject_to_model,
\* which a ValueError of _find_root_subject never reaches.
load_find_root ==
    /\ ld.pc = "find_root"
    /\ LET r == _find_root_subject(ld.graph, ld.class_uri, prefixes)
       IN  ld' = [ld EXCEPT !.pc = IF r.raised THEN "ValueError" ELSE "convert",
                            !.root_subject = r.subject]

\* _convert_subject_to_model(graph, root_subject, ...): the instance is made
\* of the triples of the root, its id of the root's URI.
load_convert_root ==
    /\ ld.pc = "convert"
    /\ ld' = [ld EXCEPT
                !.pc = "done",
                !.instance_of = ld.root_subject,
                !.todo = {k \in 1..Len(ld.graph) : ld.graph[k].s = ld.root_subject[1]}]

NextRoot == (load_find_root \/ load_convert_root)
                /\ UNCHANGED <<viewVars, ic, induceVars, dp>>

MaxRootTriples == 3
PersonURI == _expand_curie(Curie("schema", <<"Person">>), prefixes)
RootTriples ==
    {[s |-> s, p |-> po[1], o |-> po[2]] :
        s \in {_expand_curie(Curie("P", <<"001">>), prefixes),
               _expand_curie(Curie("P", <<"002">>), prefixes)} \cup BNodes,
        po \in {<<RDF_type, URIRef(PersonURI)>>,
                <<RDF_type, URIRef(_expand_curie(Curie("schema", <<"Thing">>), prefixes))>>,
                <<RDF_type, Literal("schema:Person", "", <<>>)>>,
                <<Predicate("name"), Literal("John", "", <<>>)>>}}
RootGraphs == UNION {[1..n -> RootTriples] : n \in 0..MaxRootTriples}

InitRoot ==
    /\ \E g \in RootGraphs, cu \in {NoValue, Some(Curie("schema", <<"Person">>))} :
          ld = [pc |-> "find_root", graph |-> g, class_uri |-> cu,
                root_subject |-> NoValue, instance_of |-> NoValue, todo |-> {}]
    /\ schema_map = InitialSchemaMap
    /\ modifications = 0
    /\ cache = NoTables
    /\ last = Called("init", "SchemaView", "()", NoResult)
    /\ ic = IdleClosure
    /\ IdleInduce
    /\ dp = IdleDump

SpecRoot == InitRoot /\ [][NextRoot]_vars

\* The subjects of a graph that are of the class, are not blank, are there.
TypedAt(g, cu) == {k \in 1..Len(g) : cu # NoValue /\ g[k].p = RDF_type
                                        /\ g[k].o = URIRef(PersonURI)}
NonBlankAt(g) == {k \in 1..Len(g) : g[k].s \notin BNodes}
FirstAt(g, at) == g[CHOOSE k \in at : \A j \in at : k <= j].s

\* C16: the root of a load is a subject whose rdf:type is the expanded
\* class_uri of the target class if there is one, else the first subject that
\* is not a blank node, else any subject; and a graph with no subject at all
\* makes the load fail, with no instance constructed.
C16_RootDiscovery ==
    ld.pc \in {"ValueError", "convert", "done"} =>
        LET g == ld.graph
            typed == TypedAt(g, ld.class_uri)
        IN  /\ typed # {} =>
                 ld.pc # "ValueError" /\ \E k \in typed : ld.root_subject = Some(g[k].s)
            /\ typed = {} /\ NonBlankAt(g) # {} =>
                 ld.pc # "ValueError" /\ ld.root_subject = Some(FirstAt(g, NonBlankAt(g)))
            /\ typed = {} /\ NonBlankAt(g) = {} /\ g # <<>> =>
                 ld.pc # "ValueError" /\ \E k \in 1..Len(g) : ld.root_subject = Some(g[k].s)
            /\ g = <<>> => ld.pc = "ValueError" /\ ld.instance_of = NoValue
            /\ ld.pc = "done" => ld.instance_of = ld.root_subject

\* A typed subject that is neither the first subject nor the first non-blank
\* one has become the root and the instance.
C16_Witness ==
    /\ ld.pc = "done"
    /\ Len(ld.graph) = 3
    /\ ld.graph[1].s \in BNodes
    /\ ld.graph[2].s \notin BNodes
    /\ TypedAt(ld.graph, ld.class_uri) = {3}
    /\ ld.graph[3].s \notin {ld.graph[1].s, ld.graph[2].s}
    /\ ld.instance_of = Some(ld.graph[3].s)

(***************************************************************************)
(* SpecFlags: induced_slot on schemas whose slot, attribute or slot_usage  *)
(* sets inlined_as_list, identifier or key, called as induced_slot(sn, cn) *)
(* and, by class_induced_slots, as induced_slot(sn, cn, imports=imports).  *)
(***************************************************************************)
\* class_slots(class_name): the slots and attribute names of the ancestors.
RECURSIVE class_slots_for(_, _)
class_slots_for(sch, ancs) ==
    IF ancs = <<>> THEN <<>>
    ELSE LET a == get_class(sch, Head(ancs))
         IN  a.slots \o [i \in 1..Len(a.attributes) |-> a.attributes[i][1]]
                     \o class_slots_for(sch, Tail(ancs))

class_slots(sch, class_name) ==
    DedupKeepFirst(class_slots_for(sch, class_ancestors(sch, class_name)))

\* class_induced_slots(class_name), one induced_slot call of its list.
class_induced_slots_call ==
    \E cn \in {"C", "B"} :
        \E sn \in Range(class_slots(schema, cn)) :
            InducedCall(sn, cn, "induced_slot(sn, cn, imports=imports)")

NextFlags == (induced_slot_call \/ class_induced_slots_call)
                /\ UNCHANGED <<viewVars, ic, ld, dp>>

\* How many classes give the slot a slot_usage in SpecFlags.
MaxFlagUsages == 1
FlagNames == {"inlined_as_list", "identifier", "key"}
Flagged(f) == [SlotDefinition("s") EXCEPT ![f] = Some(TRUE)]

InitFlags ==
    /\ \E h \in Hierarchies(BoundsClasses, TRUE),
          usage \in [Range(BoundsClasses) ->
                        {<<>>} \cup {<< <<"s", Flagged(f)>> >> : f \in FlagNames}],
          own \in {<<>>, << <<"s", SlotDefinition("s")>> >>}
                     \cup {<< <<"s", Flagged(f)>> >> : f \in FlagNames},
          attr \in {<<>>, << <<"s", SlotDefinition("s")>> >>}
                     \cup {<< <<"s", Flagged(f)>> >> : f \in FlagNames} :
          /\ Links(h) <= MaxParentLinks
          /\ Cardinality({c \in Range(BoundsClasses) : usage[c] # <<>>}) <= MaxFlagUsages
          /\ schema = [SchemaOf(h, usage, [NoEntries(BoundsClasses) EXCEPT !["B"] = attr],
                                SlotDefinition("s")) EXCEPT !.slots = own]
    /\ induced_cache = {}
    /\ induced = [op |-> "idle"]
    /\ schema_map = InitialSchemaMap
    /\ modifications = 0
    /\ cache = NoTables
    /\ last = Called("init", "SchemaView", "()", NoResult)
    /\ ic = IdleClosure
    /\ ld = IdleLoad
    /\ dp = IdleDump

SpecFlags == InitFlags /\ [][NextFlags]_vars

\* C17: two calls of induced_slot for one slot and one class, with no
\* mutation of the view between them, return results equal field by field:
\* the result just returned equals every result returned before for the
\* same slot and class.
C17_InductionIdempotent ==
    (induced.op = "induced_slot" /\ ~induced.raised) =>
        \A e \in induced_cache :
            (e.slot_name = induced.slot_name /\ e.class_name = induced.class_name)
            => [e.result EXCEPT !.domain_of = SharedDomainOf(schema, e)] = induced.result

\* C19: in every induced slot inlined_as_list implies inlined, and identifier
\* or key implies required, wherever the flag was set.
C19_FlagsImply ==
    (induced.op = "induced_slot" /\ ~induced.raised) =>
        /\ induced.result.inlined_as_list = Some(TRUE) => induced.result.inlined = Some(TRUE)
        /\ (induced.result.identifier = Some(TRUE) \/ induced.result.key = Some(TRUE))
              => induced.result.required = Some(TRUE)

(***************************************************************************)
(* SpecDirect: the schema is edited behind the view's back (test_caching). *)
(* A memoised all_classes result is a new dict (copy, {**d, **d1}) whose   *)
(* values are the schema's own ClassDefinition objects.                    *)
(***************************************************************************)
DirectInputs == ClassInputs \cup {ClassDef("Z", 1, None, <<>>, <<>>)}

\* The memoised dicts after `obj` was changed in place into `new`: every dict
\* holding the object shows the change.
Aliased(c, obj, new) ==
    [c EXCEPT !.elems =
        {IF e.method = "all_classes"
         THEN [e EXCEPT !.result = [i \in 1..Len(e.result) |->
                   IF e.result[i][2] = obj THEN <<e.result[i][1], new>> ELSE e.result[i]]]
         ELSE e : e \in c.elems}]

\* view.schema.classes[cls.name] = cls
direct_set_class ==
    \E cls \in DirectInputs :
        /\ schema_map' = [schema_map EXCEPT ![RootName].classes = DictSet(@, cls.name, cls)]
        /\ last' = Called("direct", "schema.classes[name] = cls", cls.name, NoResult)
        /\ UNCHANGED <<modifications, cache>>

\* del view.schema.classes[name]
direct_del_class ==
    \E name \in DictKeys(schema_map[RootName].classes) :
        /\ schema_map' = [schema_map EXCEPT ![RootName].classes = DictDel(@, name)]
        /\ last' = Called("direct", "del schema.classes[name]", name, NoResult)
        /\ UNCHANGED <<modifications, cache>>

\* view.schema.classes[name].description = ... (ver stands for the content;
\* 5 is content that no definition of that name has had before)
direct_edit_class ==
    \E name \in DictKeys(schema_map[RootName].classes) :
        LET obj == DictGet(schema_map[RootName].classes, name)
            new == [obj EXCEPT !.ver = 5]
        IN  /\ obj.ver # 5
            /\ \A e \in cache.elems :
                  (e.method = "all_classes" /\ DictHas(e.result, name))
                  => DictGet(e.result, name).ver # 5
            /\ schema_map' = [schema_map EXCEPT ![RootName].classes = DictSet(@, name, new)]
            /\ cache' = Aliased(cache, obj, new)
            /\ last' = Called("direct", "schema.classes[name].ver = 5", name, NoResult)
            /\ UNCHANGED modifications

\* view.set_modified()
set_modified_call ==
    /\ modifications < MaxMods
    /\ modifications' = set_modified(modifications)
    /\ cache' = Live(cache, modifications')
    /\ last' = Called("set_modified", "set_modified", "()", NoResult)
    /\ UNCHANGED schema_map

NextDirect ==
    (query_all_classes \/ direct_set_class \/ direct_del_class \/ direct_edit_class
        \/ set_modified_call) /\ UNCHANGED <<ic, induceVars, ld, dp>>

SpecDirect == InitView /\ [][NextDirect]_vars

\* The entries the table holds for the query about to be made.
MemoisedBefore ==
    {e \in cache.elems :
        e.mods = modifications /\ e.method = last'.method /\ e.args = last'.args}

\* A query made right after an entry of schema.classes was set or deleted,
\* for which the table has an entry (made before the edit, which leaves the
\* table alone), returns what that entry holds.
StaleAfterEntryEdit ==
    (/\ last.op = "direct"
     /\ last.method \in {"schema.classes[name] = cls", "del schema.classes[name]"}
     /\ last'.op = "query"
     /\ MemoisedBefore # {})
    => \A e \in MemoisedBefore : last'.result = e.result

\* A memoised query made right after a class was changed in place does not
\* show the new content.
StaleAfterEditInPlace ==
    (/\ last.op = "direct"
     /\ last.method = "schema.classes[name].ver = 5"
     /\ last'.op = "query"
     /\ MemoisedBefore # {}
     /\ DictHas(last'.result, last.args))
    => DictGet(last'.result, last.args).ver # 5

\* The first query after set_modified() gives what the schema now holds.
FreshAfterSetModified ==
    (last.op = "set_modified" /\ last'.op = "query")
    => last'.result = Stored(schema_map, last'.method, last'.args)

\* C18: a direct edit of view.schema is not visible to a query whose result
\* was already memoised, which keeps returning the result of before the
\* edit, until set_modified() is called; the first query after
\* set_modified() reflects the edit.
C18_DirectEditInvisible ==
    [][StaleAfterEntryEdit /\ StaleAfterEditInPlace /\ FreshAfterSetModified]_vars

\* C18 as amended: a direct edit that sets or deletes an entry of
\* view.schema.classes is not visible to a query whose result was already
\* memoised, which keeps returning the result of before the edit, until
\* set_modified() is called; the first query after set_modified() reflects
\* every edit made.
C18_EntryEditInvisible ==
    [][StaleAfterEntryEdit /\ FreshAfterSetModified]_vars

\* all_classes, memoised before Z was put into schema.classes, is asked
\* again and returns a dict without Z.
C18_Witness ==
    /\ last.op = "query"
    /\ last.method = "all_classes"
    /\ modifications = 0
    /\ DictHas(schema_map[RootName].classes, "Z")
    /\ ~DictHas(last.result, "Z")

(***************************************************************************)
(* SpecAttr: induced_slot on schemas where classes declare the slot as an  *)
(* attribute (its range names the class) and the top-level slot, when      *)
(* there is one, may have a parent slot that is required, with range "p".  *)
(***************************************************************************)
AttrOf(carriers) ==
    [c \in Range(BoundsClasses) |->
        IF c \in carriers
        THEN << <<"s", [SlotDefinition("s") EXCEPT !.range = Some(c)]>> >>
        ELSE <<>>]

TopLevelSlots ==
    {<<>>,
     << <<"s", SlotDefinition("s")>> >>,
     << <<"s", [SlotDefinition("s") EXCEPT !.is_a = "p"]>>,
        <<"p", [SlotDefinition("p") EXCEPT !.range = Some("p"),
                                           !.required = Some(TRUE)]>> >>}

InitAttr ==
    /\ \E h \in Hierarchies(BoundsClasses, TRUE),
          carriers \in SUBSET Range(BoundsClasses), own \in TopLevelSlots :
          /\ Links(h) <= MaxParentLinks
          /\ schema = [SchemaOf(h, NoEntries(BoundsClasses), AttrOf(carriers),
                                SlotDefinition("s")) EXCEPT !.slots = own]
    /\ induced_cache = {}
    /\ induced = [op |-> "idle"]
    /\ schema_map = InitialSchemaMap
    /\ modifications = 0
    /\ cache = NoTables
    /\ last = Called("init", "SchemaView", "()", NoResult)
    /\ ic = IdleClosure
    /\ ld = IdleLoad
    /\ dp = IdleDump

SpecAttr == InitAttr /\ [][NextInduce]_vars

\* What induced_slot returns when it starts from the attribute of the first
\* class of `order` that declares one (no slot-level propagation: the parent
\* slot's required and range are not there), and when no class of `order`
\* declares one (the result is not made from any class's attribute).
FromFirstAttribute(order) ==
    LET has == {k \in 1..Len(order) : DictHas(get_class(schema, order[k]).attributes, "s")}
        first == order[CHOOSE k \in has : \A j \in has : k <= j]
    IN  IF has # {}
        THEN induced.result.range = Some(first) /\ induced.result.required = NoValue
        ELSE induced.result.range[1] \notin Range(BoundsClasses)

\* C20: in induced_slot(slot, class) the attribute used is that of the
\* nearest class of the reflexive is_a-only chain of the class that declares
\* it, an attribute declared only on a mixin is not picked up, and when an
\* attribute is found no slot-level ancestor propagation is made.
C20_IsAChainOnly ==
    InducedFor("s") =>
        LET RECURSIVE IsAChain(_)
            IsAChain(c) == <<c>> \o (IF get_class(schema, c).is_a = None THEN <<>>
                                     ELSE IsAChain(get_class(schema, c).is_a))
        IN  FromFirstAttribute(IsAChain(induced.class_name))

\* C20 as amended: the attribute used is that of the first class that
\* declares it in the order of class_ancestors(class), which follows is_a and
\* mixins: the class itself, its mixins as listed, its is_a parent, then
\* theirs; when one is found no slot-level ancestor propagation is made.
C20_AncestorOrder ==
    InducedFor("s") => FromFirstAttribute(class_ancestors(schema, induced.class_name))

\* The attribute of a mixin is used although the is_a parent declares one
\* too and the top-level slot has a required parent.
C20_Witness ==
    /\ InducedFor("s")
    /\ get_class(schema, "C").mixins = <<"B">>
    /\ get_class(schema, "C").is_a = "A"
    /\ DictKeys(get_class(schema, "C").attributes) = {}
    /\ DictHas(get_class(schema, "B").attributes, "s")
    /\ DictHas(get_class(schema, "A").attributes, "s")
    /\ DictHas(schema.slots, "p")
    /\ induced.result.range = Some("B")
    /\ induced.result.required = NoValue

(***************************************************************************)
(* SpecProp: induced_slot on a chain of slots, s is_a p is_a g, each of    *)
(* which may declare required (true or false), a range (its own name) and  *)
(* a minimum_value (0 or 5).                                               *)
(***************************************************************************)
DeclaredSlots(n, isa) ==
    {[SlotDefinition(n) EXCEPT !.is_a = isa, !.required = req, !.range = rng,
                               !.minimum_value = mn] :
        req \in {NoValue, Some(TRUE), Some(FALSE)},
        rng \in {NoValue, Some(n)},
        mn \in {NoValue, Some(0), Some(5)}}

InitProp ==
    /\ \E h \in Hierarchies(BoundsClasses, TRUE),
          s \in DeclaredSlots("s", "p"), p \in DeclaredSlots("p", "g"),
          g \in DeclaredSlots("g", None) :
          /\ Links(h) = 0
          /\ schema = [SchemaOf(h, NoEntries(BoundsClasses), NoEntries(BoundsClasses),
                                SlotDefinition("s"))
                          EXCEPT !.slots = << <<"s", s>>, <<"p", p>>, <<"g", g>> >>]
    /\ induced_cache = {}
    /\ induced = [op |-> "idle"]
    /\ schema_map = InitialSchemaMap
    /\ modifications = 0
    /\ cache = NoTables
    /\ last = Called("init", "SchemaView", "()", NoResult)
    /\ ic = IdleClosure
    /\ ld = IdleLoad
    /\ dp = IdleDump

SpecProp == InitProp /\ [][NextInduce]_vars

\* The value the first slot of a chain that declares the metaslot gives it.
RECURSIVE FirstDeclared(_, _)
FirstDeclared(chain, m) ==
    IF chain = <<>> THEN NoValue
    ELSE IF DictGet(schema.slots, Head(chain))[m] # NoValue
    THEN DictGet(schema.slots, Head(chain))[m]
    ELSE FirstDeclared(Tail(chain), m)

\* C21: in the propagation from slot ancestors a value the slot declares
\* itself is never replaced by an ancestor's (a declared false or 0
\* included), and a nearer ancestor's value replaces a farther one's: the
\* induced value is that of the first of s, p, g that declares one.
C21_OwnValueKept ==
    (induced.op = "induced_slot" /\ induced.slot_name = "s" /\ ~induced.raised) =>
        \A m \in {"required", "range", "minimum_value"} :
            FirstDeclared(<<"s", "p", "g">>, m) # NoValue
            => induced.result[m] = FirstDeclared(<<"s", "p", "g">>, m)

(***************************************************************************)
(* SpecDomain: induced_slot on schemas where any of the classes may list   *)
(* the slot among its slots or declare it as an attribute, and the others  *)
(* inherit it or not.                                                      *)
(***************************************************************************)
RECURSIVE DomainClassesOf(_, _, _)
DomainClassesOf(h, listers, carriers) ==
    IF h = <<>> THEN <<>>
    ELSE LET c == Head(h)
         IN  << <<c.name,
                  ClassDefinition(c.name, c.is_a, c.mixins,
                                  IF c.name \in listers THEN <<"s">> ELSE <<>>,
                                  <<>>,
                                  IF c.name \in carriers
                                  THEN << <<"s", SlotDefinition("s")>> >> ELSE <<>>)>> >>
             \o DomainClassesOf(Tail(h), listers, carriers)

InitDomain ==
    /\ \E h \in Hierarchies(BoundsClasses, TRUE),
          listers \in SUBSET Range(BoundsClasses),
          carriers \in SUBSET Range(BoundsClasses),
          own \in {<<>>, << <<"s", SlotDefinition("s")>> >>} :
          /\ Links(h) <= MaxParentLinks
          /\ listers \cap carriers = {}
          /\ schema = [classes |-> DomainClassesOf(h, listers, carriers),
                       slots |-> own,
                       default_range |-> Some("string")]
    /\ induced_cache = {}
    /\ induced = [op |-> "idle"]
    /\ schema_map = InitialSchemaMap
    /\ modifications = 0
    /\ cache = NoTables
    /\ last = Called("init", "SchemaView", "()", NoResult)
    /\ ic = IdleClosure
    /\ ld = IdleLoad
    /\ dp = IdleDump

SpecDomain == InitDomain /\ [][NextFlags]_vars

NoDuplicates(l) == \A i, j \in 1..Len(l) : l[i] = l[j] => i = j

\* The classes that list the slot or declare it as an attribute themselves.
Declarers ==
    {c \in Range(BoundsClasses) :
        "s" \in Range(get_class(schema, c).slots)
        \/ DictHas(get_class(schema, c).attributes, "s")}

\* C22: domain_of of an induced slot holds, each once, every class whose
\* direct or inherited slots include the slot, and no other class.
C22_DomainOfInherited ==
    (induced.op = "induced_slot" /\ induced.slot_name = "s" /\ ~induced.raised) =>
        /\ NoDuplicates(induced.result.domain_of[1])
        /\ Range(induced.result.domain_of[1]) =
              {c \in Range(BoundsClasses) : "s" \in Range(class_slots(schema, c))}

\* C22 as amended: domain_of of an induced slot holds, each once, every
\* class that lists the slot among its own slots or declares it among its
\* own attributes, and no other class; a class that only inherits the slot
\* is not added.
C22_DomainOfDeclarers ==
    (induced.op = "induced_slot" /\ induced.slot_name = "s" /\ ~induced.raised) =>
        /\ NoDuplicates(induced.result.domain_of[1])
        /\ Range(induced.result.domain_of[1]) = Declarers

\* C inherits the slot from its is_a parent B, which lists it, and the
\* induced slot for C has B alone in domain_of.
C22_Witness ==
    /\ InducedFor("s")
    /\ induced.class_name = "C"
    /\ get_class(schema, "C").is_a = "B"
    /\ Declarers = {"B"}
    /\ induced.result.domain_of = Some(<<"B">>)

(***************************************************************************)
(* FairImports: SpecImports with the while loop of imports_closure running *)
(* on, as a sequential loop does: an iteration that can be taken is taken, *)
(* and so is the return after the last one.                                *)
(***************************************************************************)
\* The number of import lines of all documents together, for the fair runs.
MaxFairLines == 3

TotalLines(g) == Len(g["main"]) + Len(g["a"]) + Len(g["d/a"]) + Len(g["d/b"])

InitFair ==
    /\ \E g \in ImportGraphs :
          /\ TotalLines(g) <= MaxFairLines
          /\ schema_map = [sn \in SchemaNames |-> DocumentOf(sn, g[sn], TRUE)]
    /\ modifications = 0
    /\ cache = NoTables
    /\ last = Called("init", "SchemaView", "()", NoResult)
    /\ ic = IdleClosure
    /\ IdleInduce
    /\ ld = IdleLoad
    /\ dp = IdleDump

NextFair ==
    (closure_call \/ closure_loop \/ closure_return)
        /\ UNCHANGED <<induceVars, ld, dp>>

FairImports ==
    /\ InitFair
    /\ [][NextFair]_vars
    /\ WF_vars(NextFair)

\* The names pushed on todo for schema sn: its import lines as resolved,
\* the lines naming sn itself left out.
ImportEdges(sm, sn) ==
    IF sn \in DOMAIN sm THEN Range(PushImports(sn, sm[sn].imports)) ELSE {}

RECURSIVE Reachable(_, _)
Reachable(sm, S) ==
    LET more == S \cup UNION {ImportEdges(sm, sn) : sn \in S}
    IN  IF more = S THEN S ELSE Reachable(sm, more)

\* Some schema reached from the root is reached again from its own imports.
CyclicImports(sm) ==
    \E sn \in Reachable(sm, {RootName}) :
        sn \in Reachable(sm, ImportEdges(sm, sn))

\* Some schema reached from the root has an import line naming itself.
SelfImport(sm) ==
    \E sn \in Reachable(sm, {RootName}) \cap DOMAIN sm :
        \E k \in 1..Len(sm[sn].imports) : sm[sn].imports[k] = sn

\* C23: imports_closure terminates on every finite import graph, cyclic and
\* self-importing ones included, and the list it returns holds every schema
\* reachable from the root, the root included, exactly once and nothing
\* else.
C23_ClosureTerminatesExact ==
    /\ [](ic.pc = "loop" => <>(ic.pc \in {"done", "raised"}))
    /\ []((ic.pc = "done" /\ ic.imports) =>
            /\ NoDuplicates(ic.result)
            /\ Range(ic.result) = Reachable(schema_map, {RootName}))

\* A call has returned on a cyclic import graph with a self-import.
C23_Witness ==
    /\ ic.pc = "done"
    /\ ic.imports
    /\ CyclicImports(schema_map)
    /\ SelfImport(schema_map)
    /\ Len(ic.result) >= 2

(***************************************************************************)
(* OrderingError of all_classes(ordered_by=inheritance), over SpecOrder.   *)
(***************************************************************************)
\* The names met by following is_a from name n, n itself left out.
RECURSIVE IsAChain(_, _, _)
IsAChain(classes, n, seen) ==
    IF ~DictHas(classes, n) THEN seen
    ELSE LET p == DictGet(classes, n).is_a
         IN  IF p = None \/ p \in seen THEN seen
             ELSE IsAChain(classes, p, seen \cup {p})

\* Some class is its own is_a ancestor.
IsACycle(classes) ==
    \E n \in DictKeys(classes) :
        DictGet(classes, n).is_a # None /\ n \in IsAChain(classes, n, {})

\* Some class follows is_a to a name that is not among the classes.
IsADangling(classes) ==
    \E n \in DictKeys(classes) :
        \E p \in IsAChain(classes, n, {}) : ~DictHas(classes, p)

ByInheritance ==
    /\ last.op \in {"query", "raised"}
    /\ last.method = "all_classes"
    /\ last.args = "inheritance"

\* C24: ordering by inheritance raises OrderingError only when the is_a
\* relation among the elements has a cycle; for an acyclic is_a relation it
\* succeeds.
C24_RaisesOnlyOnCycle ==
    (ByInheritance /\ last.op = "raised") => IsACycle(schema_map[RootName].classes)

\* C24 as amended: ordering by inheritance raises OrderingError exactly
\* when some element's is_a chain runs into a cycle or names a parent that
\* is not among the elements; when every chain ends in an element without
\* is_a, the ordering succeeds.
C24_RaisesOnCycleOrDangling ==
    ByInheritance =>
        (last.op = "raised" <=>
            (IsACycle(schema_map[RootName].classes)
                \/ IsADangling(schema_map[RootName].classes)))

\* OrderingError for classes without any is_a cycle: one names a parent
\* that is not among them.
C24_Witness ==
    /\ ByInheritance
    /\ last.op = "raised"
    /\ ~IsACycle(schema_map[RootName].classes)
    /\ IsADangling(schema_map[RootName].classes)

(***************************************************************************)
(* RDFLibDumper.inject_triples on an object with a nested object.  An      *)
(* object is its class name and its public attributes in order; `sv` gives *)
(* for each class the slots induced_slot finds for it.  The graph is the   *)
(* set of its triples.                                                     *)
(***************************************************************************)
PyObject(cls, attrs) == [kind |-> "obj", cls |-> cls, attrs |-> attrs]

DumpSlot(uri, range, identifier, designates_type) ==
    [uri |-> uri, range |-> range, identifier |-> identifier,
     designates_type |-> designates_type]

\* BNode(): a fresh blank node, named here after the class of its object.
FreshBNode(cls) ==
    [node |-> "BNode", lex |-> cls, language |-> "", datatype |-> <<>>, uri |-> <<>>]

\* schemaview.all_types()
DumpTypes == {"string", "uriorcurie"}

\* schemaview.get_uri(cn, expand=True)
ClassURI(cn) == URIRef(<<"http://example.org/", cn>>)

\* schemaview.get_identifier_slot(cn): the name of the identifier slot, or None
get_identifier_slot(sv, cn) ==
    LET ids == {k \in 1..Len(sv[cn]) : sv[cn][k][2].identifier}
    IN  IF ids = {} THEN None ELSE sv[cn][CHOOSE k \in ids : \A j \in ids : k <= j][1]

_normalize_property_values(prop_value) ==
    IF prop_value.kind = "list" THEN prop_value.items ELSE <<prop_value>>

_create_subject_uri(element, sv) ==
    LET id_slot == get_identifier_slot(sv, element.cls)
    IN  IF id_slot # None THEN URIRef(<<DictGet(element.attrs, id_slot).text>>)
        ELSE FreshBNode(element.cls)

_add_type_triple(subject_uri, element) ==
    {<<subject_uri, URIRef(RDF_type), ClassURI(element.cls)>>}

RECURSIVE inject_triples(_, _, _)
RECURSIVE _add_property_triples(_, _, _, _)
RECURSIVE _process_element_properties(_, _, _, _)

\* Returns whether the slot designated the type, and the triples added.
_process_single_property(prop, cn, sv, subject_uri) ==
    IF ~DictHas(sv[cn], prop[1])
    THEN [type_added |-> FALSE, triples |-> {}]
    ELSE IF DictGet(sv[cn], prop[1]).identifier
    THEN [type_added |-> FALSE, triples |-> {}]
    ELSE _add_property_triples(_normalize_property_values(prop[2]),
                               DictGet(sv[cn], prop[1]), sv, subject_uri)

_process_element_properties(element_vars, cn, sv, subject_uri) ==
    IF element_vars = <<>> THEN [type_added |-> FALSE, triples |-> {}]
    ELSE LET one == _process_single_property(Head(element_vars), cn, sv, subject_uri)
             rest == _process_element_properties(Tail(element_vars), cn, sv, subject_uri)
         IN  [type_added |-> one.type_added \/ rest.type_added,
              triples |-> one.triples \cup rest.triples]

_add_property_triples(values, slot, sv, subject_uri) ==
    IF values = <<>> THEN [type_added |-> FALSE, triples |-> {}]
    ELSE LET rest == _add_property_triples(Tail(values), slot, sv, subject_uri)
             v == inject_triples(Head(values), sv, slot.range)
         IN  IF Head(values).kind = "None" THEN rest
             ELSE [type_added |-> slot.designates_type \/ rest.type_added,
                   triples |-> v.triples
                               \cup {<<subject_uri, URIRef(<<slot.uri>>), v.node>>}
                               \cup rest.triples]

\* _handle_complex_object with the type triple left out.
_handle_complex_object_untyped(element, sv) ==
    IF element.kind # "obj" THEN [node |-> URIRef(<<element.text>>), triples |-> {}]
    ELSE LET subject_uri == _create_subject_uri(element, sv)
             r == _process_element_properties(element.attrs, element.cls, sv, subject_uri)
         IN  [node |-> subject_uri, triples |-> r.triples]

\* An element without attributes of its own (a reference) is turned into a
\* URI by _handle_simple_identifier.
_handle_complex_object(element, sv) ==
    IF element.kind # "obj" THEN [node |-> URIRef(<<element.text>>), triples |-> {}]
    ELSE LET subject_uri == _create_subject_uri(element, sv)
             r == _process_element_properties(element.attrs, element.cls, sv, subject_uri)
         IN  [node |-> subject_uri,
              triples |-> IF r.type_added THEN r.triples
                          ELSE r.triples \cup _add_type_triple(subject_uri, element)]

\* The dispatch on target_type: a type gives a literal or a URI, all else
\* is a complex object.
inject_triples(element, sv, target_type) ==
    IF target_type = "string"
    THEN [node |-> Literal(element.text, "", <<>>), triples |-> {}]
    ELSE IF target_type = "uriorcurie"
    THEN [node |-> URIRef(<<element.text>>), triples |-> {}]
    ELSE _handle_complex_object(element, sv)

\* ---- the schemas and objects dumped ----
\* Person: id (identifier), category, address (an Address); Address: kind,
\* street, no identifier.  category and kind designate the type or not.
TypedSchemas ==
    {[Person |-> << <<"id", DumpSlot("ex:id", "string", TRUE, FALSE)>>,
                    <<"category", DumpSlot("ex:category", "uriorcurie", FALSE, cd)>>,
                    <<"address", DumpSlot("ex:address", "Address", FALSE, FALSE)>> >>,
      Address |-> << <<"kind", DumpSlot("ex:kind", "string", FALSE, kd)>>,
                     <<"street", DumpSlot("ex:street", "string", FALSE, FALSE)>> >>] :
        cd \in BOOLEAN, kd \in BOOLEAN}

CategoryValues ==
    {PyNone, PyStr("ex:Person"), PyList(<<>>), PyList(<<PyStr("ex:Person")>>),
     PyList(<<PyNone, PyStr("ex:Person")>>)}

AddressValues ==
    {PyNone, PyStr("ex:A1")}
    \cup {PyObject("Address", << <<"kind", k>>, <<"street", PyStr("Main")>> >>) :
            k \in {PyNone, PyStr("Home")}}

\* "nickname" is an attribute of the object that the schema has no slot for.
TypedElements ==
    {PyObject("Person", << <<"id", PyStr("ex:P1")>>, <<"category", c>>,
                           <<"address", a>> >> \o extra) :
        c \in CategoryValues, a \in AddressValues,
        extra \in {<<>>, << <<"nickname", PyStr("Pat")>> >>}}

InitTyped ==
    /\ \E sv \in TypedSchemas, element \in TypedElements :
          dp = [pc |-> "init", sv |-> sv, element |-> element, triples |-> {}]
    /\ schema_map = InitialSchemaMap
    /\ modifications = 0
    /\ cache = NoTables
    /\ last = Called("init", "SchemaView", "()", NoResult)
    /\ ic = IdleClosure
    /\ IdleInduce
    /\ ld = IdleLoad

\* dumper.as_rdf_graph(element, schemaview): the triples of the graph
as_rdf_graph_call ==
    /\ dp.pc = "init"
    /\ dp' = [dp EXCEPT !.pc = "dumped",
                        !.triples = inject_triples(dp.element, dp.sv, "Person").triples]

NextTyped == as_rdf_graph_call /\ UNCHANGED <<viewVars, ic, induceVars, ld>>

SpecTyped == InitTyped /\ [][NextTyped]_vars

\* The complex objects of the dump, root and nested, each with its subject.
DumpedObjects ==
    LET root == dp.element
        nested == DictGet(root.attrs, "address")
    IN  {[obj |-> root, subject |-> _create_subject_uri(root, dp.sv)]}
        \cup (IF nested.kind = "obj"
              THEN {[obj |-> nested, subject |-> _create_subject_uri(nested, dp.sv)]}
              ELSE {})

HasTypeTriple(o) ==
    <<o.subject, URIRef(RDF_type), ClassURI(o.obj.cls)>> \in dp.triples

\* Some slot of the object's class designates the type.
HasDesignator(o) ==
    \E k \in 1..Len(o.obj.attrs) :
        /\ DictHas(dp.sv[o.obj.cls], o.obj.attrs[k][1])
        /\ DictGet(dp.sv[o.obj.cls], o.obj.attrs[k][1]).designates_type

\* Some slot that designates the type, and is not the identifier, holds a
\* value other than None.
DesignatorHasValue(o) ==
    \E k \in 1..Len(o.obj.attrs) :
        /\ DictHas(dp.sv[o.obj.cls], o.obj.attrs[k][1])
        /\ DictGet(dp.sv[o.obj.cls], o.obj.attrs[k][1]).designates_type
        /\ ~DictGet(dp.sv[o.obj.cls], o.obj.attrs[k][1]).identifier
        /\ \E v \in Range(_normalize_property_values(o.obj.attrs[k][2])) :
              v.kind # "None"

\* C25: an rdf:type triple with the class URI is added for a dumped complex
\* object, root or nested, exactly when none of its slots designates_type.
C25_TypeUnlessDesignator ==
    dp.pc = "dumped" =>
        \A o \in DumpedObjects : HasTypeTriple(o) <=> ~HasDesignator(o)

\* C25 as amended: the rdf:type triple is added for a dumped complex
\* object, root or nested, exactly when no slot that designates_type gave
\* a triple for it, that is when every such slot is the identifier, or
\* holds None, or holds a list without any value other than None.
C25_TypeUnlessDesignatorValue ==
    dp.pc = "dumped" =>
        \A o \in DumpedObjects : HasTypeTriple(o) <=> ~DesignatorHasValue(o)

\* A dump where the root's designator holds a value and the nested
\* object's designator holds None: the nested object alone gets the triple.
C25_Witness ==
    /\ dp.pc = "dumped"
    /\ Cardinality(DumpedObjects) = 2
    /\ \A o \in DumpedObjects : HasDesignator(o)
    /\ \E o \in DumpedObjects : o.obj.cls = "Person" /\ ~HasTypeTriple(o)
    /\ \E o \in DumpedObjects : o.obj.cls = "Address" /\ HasTypeTriple(o)

(***************************************************************************)
(* PydanticRDFLoader._find_field_for_predicate for fields that carry       *)
(* slot_uri, exact_mappings and from_schema.  A URI is the sequence of its *)
(* segments, so from_schema with or without its closing "/" is the same    *)
(* sequence and from_schema + field_name appends the name.                 *)
(***************************************************************************)
FieldMeta(slot_uri, exact_mappings, from_schema) ==
    [slot_uri |-> slot_uri, exact_mappings |-> exact_mappings,
     from_schema |-> from_schema]

\* The three tests of the loop body, for one field.
SlotUriMatch(field, predicate, pf) ==
    field[2].slot_uri # NoValue /\ _expand_curie(field[2].slot_uri[1], pf) = predicate

ExactMappingMatch(field, predicate, pf) ==
    \E k \in 1..Len(field[2].exact_mappings) :
        _expand_curie(field[2].exact_mappings[k], pf) = predicate

ConstructedMatch(field, predicate) ==
    field[2].from_schema # <<>> /\ field[2].from_schema \o <<field[1]>> = predicate

\* `for field_name, field_info in model_class.model_fields.items()`: the
\* first field that passes any of the three tests.
_find_field_for_predicate_in(fields, predicate, pf) ==
    LET hits == {i \in 1..Len(fields) :
                    \/ SlotUriMatch(fields[i], predicate, pf)
                    \/ ExactMappingMatch(fields[i], predicate, pf)
                    \/ ConstructedMatch(fields[i], predicate)}
    IN  IF hits = {} THEN None
        ELSE fields[CHOOSE i \in hits : \A j \in hits : i <= j][1]

\* ---- the classes and predicates looked up ----
FieldMetas ==
    {FieldMeta(su, em, fs) :
        su \in {NoValue, Some(Curie("P", <<"x">>)), Some(Curie("P", <<"y">>))},
        em \in {<<>>, <<Curie("P", <<"x">>)>>,
                <<Curie("schema", <<"y">>), Curie("P", <<"x">>)>>},
        fs \in {<<>>, <<"example.org", "P">>}}

FieldLists ==
    {<< <<n[1], a>>, <<n[2], b>> >> :
        n \in {<<"x", "g">>, <<"g", "x">>}, a \in FieldMetas, b \in FieldMetas}

FieldPredicates ==
    {<<"example.org", "P", "x">>, <<"example.org", "P", "y">>,
     <<"example.org", "P", "zz">>}

InitField ==
    /\ \E fields \in FieldLists, predicate \in FieldPredicates :
          ld = [pc |-> "lookup", fields |-> fields, predicate |-> predicate,
                field_name |-> None]
    /\ schema_map = InitialSchemaMap
    /\ modifications = 0
    /\ cache = NoTables
    /\ last = Called("init", "SchemaView", "()", NoResult)
    /\ ic = IdleClosure
    /\ IdleInduce
    /\ dp = IdleDump

\* field_name = self._find_field_for_predicate(model_class, predicate, prefixes);
\* `if field_name:` the value is taken, else the predicate is skipped.
find_field_call ==
    /\ ld.pc = "lookup"
    /\ LET field_name == _find_field_for_predicate_in(ld.fields, ld.predicate, prefixes)
       IN  ld' = [ld EXCEPT !.pc = IF field_name = None THEN "skipped" ELSE "resolved",
                            !.field_name = field_name]

NextField == find_field_call /\ UNCHANGED <<viewVars, ic, induceVars, dp>>

SpecField == InitField /\ [][NextField]_vars

FieldsMatching(Test(_)) ==
    {ld.fields[i][1] : i \in {k \in 1..Len(ld.fields) : Test(ld.fields[k])}}

\* C26: a predicate is resolved by match kind: to a field whose slot_uri
\* matches if there is one, else to a field with a matching exact mapping,
\* else to a field whose constructed URI matches, whatever the order of
\* declaration; a predicate matching no field is skipped.
C26_MatchKindOrder ==
    ld.pc \in {"resolved", "skipped"} =>
        LET by_slot_uri == FieldsMatching(LAMBDA f : SlotUriMatch(f, ld.predicate, prefixes))
            by_mapping == FieldsMatching(LAMBDA f : ExactMappingMatch(f, ld.predicate, prefixes))
            by_fallback == FieldsMatching(LAMBDA f : ConstructedMatch(f, ld.predicate))
        IN  IF by_slot_uri # {} THEN ld.field_name \in by_slot_uri
            ELSE IF by_mapping # {} THEN ld.field_name \in by_mapping
            ELSE IF by_fallback # {} THEN ld.field_name \in by_fallback
            ELSE ld.pc = "skipped"

(***************************************************************************)
(* SpecClosure: _closure called on every parent relation over three nodes, *)
(* cyclic ones included, from the node "a".                                *)
(***************************************************************************)
ClosureNodes == {"a", "b", "c"}
MaxParents == 2

ParentLists == UNION {[1..n -> ClosureNodes] : n \in 0..MaxParents}

ParentRelations ==
    {<< <<"a", pa>>, <<"b", pb>>, <<"c", pc>> >> :
        pa \in ParentLists, pb \in ParentLists, pc \in ParentLists}

InitClosure ==
    /\ \E f \in ParentRelations :
          induced = [op |-> "idle", f |-> f, reflexive |-> TRUE,
                     depth_first |-> TRUE, rv |-> <<>>]
    /\ schema = [classes |-> <<>>, slots |-> <<>>]
    /\ induced_cache = {}
    /\ schema_map = InitialSchemaMap
    /\ modifications = 0
    /\ cache = NoTables
    /\ last = Called("init", "SchemaView", "()", NoResult)
    /\ ic = IdleClosure
    /\ ld = IdleLoad
    /\ dp = IdleDump

closure_of(depth_first) ==
    \E reflexive \in BOOLEAN :
        induced' = [induced EXCEPT
                       !.op = "_closure", !.reflexive = reflexive,
                       !.depth_first = depth_first,
                       !.rv = _closure(induced.f, "a", reflexive, depth_first)]

closure_depth_first == closure_of(TRUE)
closure_breadth_first == closure_of(FALSE)

NextClosure ==
    (closure_depth_first \/ closure_breadth_first)
        /\ UNCHANGED <<viewVars, ic, schema, induced_cache, ld, dp>>

SpecClosure == InitClosure /\ [][NextClosure]_vars

\* The nodes reached from the nodes of S over one or more edges of f.
RECURSIVE ReachablePlus(_, _)
ReachablePlus(f, S) ==
    LET step == UNION {Range(DictGet(f, n)) : n \in S}
        more == step \cup UNION {Range(DictGet(f, n)) : n \in step}
    IN  IF more = step THEN step ELSE ReachablePlus(f, S \cup more)

\* C27: in both modes and for any parent relation _closure returns, each
\* once, exactly the nodes reachable from x over one or more edges, with x
\* itself first when reflexive.
C27_ReachableOverEdges ==
    induced.op = "_closure" =>
        /\ NoDuplicates(induced.rv)
        /\ Range(induced.rv) =
              ReachablePlus(induced.f, {"a"})
                  \cup (IF induced.reflexive THEN {"a"} ELSE {})
        /\ induced.reflexive => induced.rv[1] = "a"

\* C27 as amended: in both modes and for any parent relation _closure
\* returns, each once, exactly the nodes other than x that are reachable
\* from x, every one of them after x or after a node it is a parent of,
\* with x itself first when reflexive; without reflexive x is not in the
\* result, also when a cycle leads back to it.
C27_ReachableOthers ==
    induced.op = "_closure" =>
        LET rv == induced.rv
        IN  /\ NoDuplicates(rv)
            /\ Range(rv) =
                  (ReachablePlus(induced.f, {"a"}) \ {"a"})
                      \cup (IF induced.reflexive THEN {"a"} ELSE {})
            /\ induced.reflexive => rv[1] = "a"
            /\ \A k \in 1..Len(rv) :
                  rv[k] # "a" =>
                     \/ rv[k] \in Range(DictGet(induced.f, "a"))
                     \/ \E j \in 1..(k - 1) : rv[k] \in Range(DictGet(induced.f, rv[j]))

\* A breadth-first call without reflexive on a relation with a cycle
\* through x: the other nodes of the cycle are returned, x is not.
C27_Witness ==
    /\ induced.op = "_closure"
    /\ ~induced.reflexive
    /\ ~induced.depth_first
    /\ "a" \in ReachablePlus(induced.f, {"a"})
    /\ Range(induced.rv) = {"b", "c"}

(***************************************************************************)
(* induced_slot as a query, over SpecDomain and SpecFlags.                 *)
(***************************************************************************)
\* C28: induced_slot is a read-only query: no call changes a field value
\* (inlined, required and domain_of included) of a slot, attribute or
\* slot_usage definition stored in the schema.
C28_InductionReadOnly == [][schema' = schema]_vars

(***************************************************************************)
(* SchemaView.merge_imports and merge_schema, on the documents of          *)
(* SpecImports.  self.schema is schema_map[RootName].  Prefixes are not    *)
(* part of a document here.                                                *)
(***************************************************************************)
\* `for k, v in getattr(schema, el).items(): if clobber or k not in
\* getattr(dest, el): getattr(dest, el)[k] = copy(v)`
RECURSIVE MergeItems(_, _, _)
MergeItems(dest_el, items, clobber) ==
    IF items = <<>> THEN dest_el
    ELSE MergeItems(IF clobber \/ ~DictHas(dest_el, Head(items)[1])
                    THEN DictSet(dest_el, Head(items)[1], Head(items)[2])
                    ELSE dest_el,
                    Tail(items), clobber)

\* merge_schema(schema, clobber), `other` being the schema merged in: the
\* root document after the merge.
merge_schema(dest, other, clobber) ==
    [dest EXCEPT !.classes = MergeItems(@, other.classes, clobber),
                 !.slots = MergeItems(@, other.slots, clobber),
                 !.enums = MergeItems(@, other.enums, clobber),
                 !.subsets = MergeItems(@, other.subsets, clobber),
                 !.types = MergeItems(@, other.types, clobber)]

\* `for s2 in to_merge: self.merge_schema(s2)`
RECURSIVE MergeAll(_, _, _)
MergeAll(sm, dest, to_merge) ==
    IF to_merge = <<>> THEN dest
    ELSE MergeAll(sm, merge_schema(dest, sm[Head(to_merge)], FALSE), Tail(to_merge))

\* merge_imports(): every schema of the closure but the root is merged into
\* the root, the root's imports are emptied; set_modified() once for each
\* merge_schema and once at the end.
merge_imports(sm, c, mods) ==
    LET closure == all_schema(sm, c, mods, TRUE).result
        to_merge == SelectSeq(closure, LAMBDA sn : sn # RootName)
    IN  [schema_map |-> [sm EXCEPT ![RootName] =
                            [MergeAll(sm, sm[RootName], to_merge) EXCEPT !.imports = <<>>]],
         modifications |-> mods + Len(to_merge) + 1]

\* Called once on a view: a second call finds nothing to merge.
merge_imports_call ==
    /\ modifications = 0
    /\ LET r == merge_imports(schema_map, cache, modifications)
       IN  /\ schema_map' = r.schema_map
           /\ modifications' = r.modifications
           /\ cache' = NoTables
    /\ last' = Called("merge", "merge_imports", "()", NoResult)

NextMerge ==
    (merge_imports_call \/ query_all_classes \/ query_all_enums)
        /\ UNCHANGED <<ic, induceVars, ld, dp>>

\* Import graphs all of whose imports can be loaded.
InitMerge ==
    /\ \E g \in ImportGraphs, rootDefines \in BOOLEAN :
          /\ TotalLines(g) <= MaxFairLines
          /\ schema_map = [sn \in SchemaNames |->
                             DocumentOf(sn, g[sn], sn # RootName \/ rootDefines)]
          /\ Reachable(schema_map, {RootName}) \subseteq SchemaNames
    /\ modifications = 0
    /\ cache = NoTables
    /\ last = Called("init", "SchemaView", "()", NoResult)
    /\ ic = IdleClosure
    /\ IdleInduce
    /\ ld = IdleLoad
    /\ dp = IdleDump

SpecMerge == InitMerge /\ [][NextMerge]_vars

\* What all_<kind>(imports) resolves each name to on the documents sm, as
\* a set of (name, definition) pairs.
Resolved(sm, element_name, imports) ==
    Range(_get_dict(sm, NoTables, 0, element_name, imports).result)

\* C29: merge_imports does not change what the view resolves: each name is
\* resolved by all_*(imports=True) to the same definition before and
\* after, also when two schemas of the closure define it; afterwards the
\* root has no imports and imports=False gives what imports=True gives.
C29_MergeKeepsResolution ==
    [][last'.method = "merge_imports" /\ modifications' # modifications =>
          \A k \in 1..Len(ELEMENTS) :
              /\ Resolved(schema_map', ELEMENTS[k], TRUE)
                    = Resolved(schema_map, ELEMENTS[k], TRUE)
              /\ schema_map'[RootName].imports = <<>>
              /\ Resolved(schema_map', ELEMENTS[k], FALSE)
                    = Resolved(schema_map', ELEMENTS[k], TRUE)]_vars

(***************************************************************************)
(* The values handed to the target class at construction, over SpecLoad.   *)
(***************************************************************************)
\* A str, or a list of str.
PlainStrings(v) ==
    \/ v.kind = "str"
    \/ v.kind = "list" /\ \A k \in 1..Len(v.items) : v.items[k].kind = "str"

\* C30: after _handle_multilingual_strings and _wrap_list_fields every
\* value handed to the target class for a string field is a plain string
\* or a list of plain strings, never the pair (text, language), however
\* many language-tagged literals the predicate has, one included.
C30_NoPairAtConstruct ==
    ld.pc = "construct" =>
        \A f \in {"name", "aliases", "keywords"} :
            DictHas(ld.model_data, f) => PlainStrings(DictGet(ld.model_data, f))

====
